---- MODULE Spec2Model ----
(***************************************************************************)
(* State-machine model of the kira-v2 document registry:                   *)
(*   - the Selection Store (stores/documentSelectionStore.ts),             *)
(*   - the document data source, the controls and the derived row sets of  *)
(*     DocumentListPage (pages/DocumentListPage.tsx),                      *)
(*   - the analysis load of DocumentViewerPage                             *)
(*     (pages/DocumentViewerPage.tsx).                                     *)
(* JavaScript runs every handler and every promise continuation to         *)
(* completion on one event loop, so each handler / continuation is one     *)
(* action.                                                                 *)
(***************************************************************************)
EXTENDS Integers, Sequences, FiniteSets, TLC

(***************************************************************************)
(* Bounds of the model.                                                    *)
(***************************************************************************)
\* longest policy list the backend answers with
MaxPolicies == 2
\* longest gazette list the backend answers with
MaxGazettes == 1
\* how many times DocumentListPage is mounted in one session
MaxMounts == 2
\* how many analysis requests DocumentViewerPage issues in one session
MaxRuns == 3
\* longest id list a direct client hands to setManySelected
MaxIds == 2

(***************************************************************************)
(* JavaScript values.                                                      *)
(***************************************************************************)
\* an absent (undefined) string field
Undefined == "<undefined>"

\* `x || d` on a string field: undefined and "" are falsy
Falsy(x) == x = Undefined \/ x = ""

RECURSIVE SeqOf(_, _)
\* all sequences over S of length at most n
SeqOf(S, n) ==
  IF n = 0 THEN {<<>>}
  ELSE LET shorter == SeqOf(S, n - 1)
       IN  shorter \cup {Append(s, x) : s \in shorter, x \in S}

RECURSIVE lowerCase(_)
\* String.prototype.toLowerCase on the characters the data uses
lowerCase(s) ==
  IF s = "" THEN ""
  ELSE LET c == SubSeq(s, 1, 1)
           l == CASE c = "A" -> "a" [] c = "B" -> "b" [] c = "C" -> "c"
                  [] c = "D" -> "d" [] c = "E" -> "e" [] c = "F" -> "f"
                  [] c = "G" -> "g" [] c = "H" -> "h" [] c = "I" -> "i"
                  [] c = "J" -> "j" [] c = "K" -> "k" [] c = "L" -> "l"
                  [] c = "M" -> "m" [] c = "N" -> "n" [] c = "O" -> "o"
                  [] c = "P" -> "p" [] c = "Q" -> "q" [] c = "R" -> "r"
                  [] c = "S" -> "s" [] c = "T" -> "t" [] c = "U" -> "u"
                  [] c = "V" -> "v" [] c = "W" -> "w" [] c = "X" -> "x"
                  [] c = "Y" -> "y" [] c = "Z" -> "z" [] OTHER -> c
       IN  l \o lowerCase(SubSeq(s, 2, Len(s)))

RECURSIVE trimStart(_)
trimStart(s) ==
  IF s # "" /\ SubSeq(s, 1, 1) = " " THEN trimStart(SubSeq(s, 2, Len(s))) ELSE s

RECURSIVE trimEnd(_)
trimEnd(s) ==
  IF s # "" /\ SubSeq(s, Len(s), Len(s)) = " "
  THEN trimEnd(SubSeq(s, 1, Len(s) - 1)) ELSE s

\* String.prototype.trim
trim(s) == trimEnd(trimStart(s))

\* String.prototype.includes
includes(s, sub) ==
  \E i \in 1..(Len(s) - Len(sub) + 1) : SubSeq(s, i, i + Len(sub) - 1) = sub

(***************************************************************************)
(* DocumentRow and the fixed fallback dataset.                             *)
(***************************************************************************)
Row(id, type, title, fileName, date, sector, status, aiStatus) ==
  [id |-> id, type |-> type, title |-> title, fileName |-> fileName,
   date |-> date, sector |-> sector, status |-> status, aiStatus |-> aiStatus,
   sourceUrl |-> Undefined, rawContent |-> Undefined]

sampleDocuments ==
  << Row("D-1001", "Policy", "Cross-Border Retention Policy", "retention_policy_v2.pdf", "2026-02-20", "Finance", "Reviewed", "Processed"),
     Row("D-1002", "Directive", "Incident Reporting Directive", "incident_directive.docx", "2026-02-19", "Healthcare", "Manual", "Manual"),
     Row("D-1003", "Procedure", "Record Access Procedure", "record_access.xlsx", "2026-02-18", "Public", "Unreviewed", "Queued"),
     Row("D-1004", "Guideline", "Sanctions Screening Guideline", "screening_guideline.pdf", "2026-02-16", "Energy", "Reviewed", "Processed"),
     Row("D-1005", "Policy", "Vendor Due Diligence Policy", "vendor_due_diligence.pdf", "2026-02-15", "Finance", "Manual", "Manual"),
     Row("D-1006", "Directive", "Consumer Data Handling Directive", "consumer_data_directive.docx", "2026-02-14", "Healthcare", "Reviewed", "Processed"),
     Row("D-1007", "Procedure", "Escalation Procedure", "escalation_procedure.pdf", "2026-02-13", "Public", "Unreviewed", "Queued"),
     Row("D-1008", "Guideline", "Policy Harmonization Guideline", "harmonization_guideline.pdf", "2026-02-12", "Energy", "Reviewed", "Processed") >>

\* the status chips of the registry
StatusChips == {"All", "Reviewed", "Unreviewed", "Manual"}

(***************************************************************************)
(* The backend: what /api/policies and /api/gazettes answer with.          *)
(***************************************************************************)
\* new Date().toISOString().slice(0, 10) at the time of the load
Today == "2026-03-01"

PolicyItem(id, title, effectiveDate, status) ==
  [id |-> id, title |-> title, authority |-> "RBI", version |-> "1",
   effectiveDate |-> effectiveDate, status |-> status, assigned |-> FALSE]

\* PolicyListItem values the backend may send
PolicyItems ==
  { PolicyItem("P-1", "KYC Master Direction", "2026-01-15", "Processed"),
    PolicyItem("G-7", "Lending Circular", Undefined, Undefined) }

\* an element of the gazette array: a JSON object with optional fields, or
\* something that is no object (a number, a string, null)
GazetteObject(id, subject, url, text) ==
  [isObject |-> TRUE, id |-> id, subject |-> subject, url |-> url, text |-> text]

GazetteNonObject ==
  [isObject |-> FALSE, id |-> Undefined, subject |-> Undefined,
   url |-> Undefined, text |-> Undefined]

GazetteItems ==
  { GazetteNonObject,
    GazetteObject(Undefined, "  ", Undefined, "orphan text"),
    GazetteObject(Undefined, " Notice ", Undefined, "Body of the notice"),
    GazetteObject("G-7", Undefined, "http://egazette/7.pdf", Undefined) }

\* a JSON payload: an array of items, or something that is no array
Array(items) == [isArray |-> TRUE, items |-> items]
NonArray == [isArray |-> FALSE, items |-> <<>>]

PolicyPayloads == {Array(s) : s \in SeqOf(PolicyItems, MaxPolicies)} \cup {NonArray}
GazettePayloads == {Array(s) : s \in SeqOf(GazetteItems, MaxGazettes)} \cup {NonArray}

VARIABLES
  backendPolicies,   \* payload of GET /api/policies when the request succeeds
  backendGazettes,   \* payload of GET /api/gazettes when the request succeeds
  mounted,           \* DocumentListPage is on screen
  inst,              \* number of the current (latest) DocumentListPage instance
  loads,             \* per instance: the loadDocuments invocation of its effect
  documents,         \* useState `documents` of the current instance
  controls,          \* react-hook-form values of the current instance
  sorting,           \* useState `sorting`: the table's SortingState
  pageIndex,         \* pagination.pageIndex of the table instance (pageSize stays 6)
  selectedIds,       \* the Selection Store (module-level zustand store)
  call,              \* the latest call a direct client made on the store
  viewerMounted,     \* DocumentViewerPage is on screen
  documentId,        \* route parameter of DocumentViewerPage
  runs,              \* the runAnalysis invocations, oldest first
  analysisResult,    \* useState `analysisResult`
  analysisError,     \* useState `analysisError`
  rawPolicyModal,    \* useState `rawPolicyModal` of DocumentListPage
  fetches,           \* the getPolicyById requests of openRawPolicy, oldest first
  policyAnalyses,    \* useState `policyAnalyses`: the regulation cards
  analysesLoad,      \* the instance whose loadPolicyAnalyses is pending and active, or 0
  policyLoading,     \* useState `policyLoading`: Record<string, boolean>
  policyAnswers,     \* useState `policyAnswers`: Record<string, string>
  queries,           \* the queryPolicy requests of askAboutRegulation, oldest first
  panel,             \* number of the current (latest) AIChatPanel instance
  draft,             \* useState `draft` of AIChatPanel
  messages,          \* useState `messages` of AIChatPanel
  isSending,         \* useState `isSending` of AIChatPanel
  chats,             \* the chatAssistant requests of sendMessage, oldest first
  sends              \* number of sendMessage invocations so far

pageVars == <<mounted, inst, loads, documents, controls, sorting, pageIndex>>
backendVars == <<backendPolicies, backendGazettes>>
storeVars == <<selectedIds>>
clientVars == <<call>>
viewerVars == <<viewerMounted, documentId, runs, analysisResult, analysisError>>
modalVars == <<rawPolicyModal, fetches>>
askVars == <<policyAnalyses, analysesLoad, policyLoading, policyAnswers, queries>>
chatVars == <<panel, draft, messages, isSending, chats, sends>>
vars == <<backendPolicies, backendGazettes, mounted, inst, loads, documents,
          controls, sorting, pageIndex, selectedIds, call, viewerMounted, documentId, runs,
          analysisResult, analysisError, rawPolicyModal, fetches, policyAnalyses,
          analysesLoad, policyLoading, policyAnswers, queries, panel, draft, messages,
          isSending, chats, sends>>

\* useState<...>(null): no raw-policy modal on screen
NoModal == [null |-> TRUE]

\* useState<Record<string, ...>>({})
NoEntries == [k \in {} |-> ""]

(***************************************************************************)
(* Document data source: the first effect of DocumentListPage.             *)
(***************************************************************************)
mapPolicyToRow(policy) ==
  [id |-> policy.id,
   type |-> "Policy",
   title |-> policy.title,
   fileName |-> policy.id \o ".txt",
   date |-> IF Falsy(policy.effectiveDate) THEN Today ELSE policy.effectiveDate,
   sector |-> policy.authority,
   status |-> IF Falsy(policy.status) THEN "Unreviewed" ELSE policy.status,
   aiStatus |-> IF policy.status = "Processed" THEN "Processed" ELSE "Queued",
   sourceUrl |-> Undefined,
   rawContent |-> Undefined]

\* what mapGazetteToRow returns for an element it drops
NullRow == [null |-> TRUE]

\* a field value that String() cannot convert: a JSON object with an own
\* "toString" member that is no function, such as {"toString": 1}.  String(value)
\* finds no callable toString, Object.prototype.valueOf returns the object itself,
\* and the conversion throws a TypeError
NoPrimitive == "<no primitive value>"

\* stands for the result of a mapGazetteToRow call that throws
TypeError == [thrown |-> TRUE]

\* String(record?.field ?? fallback)
Coalesce(item, field, fallback) ==
  IF item.isObject /\ item[field] # Undefined THEN item[field] ELSE fallback

\* index is the 0-based position in the source array
mapGazetteToRow(item, index) ==
  LET id == Coalesce(item, "id", "gazette-" \o ToString(index))
      subject == trim(Coalesce(item, "subject", ""))
      url == trim(Coalesce(item, "url", ""))
      text == trim(Coalesce(item, "text", ""))
  IN  IF \E field \in {"id", "subject", "url", "text"} : Coalesce(item, field, "") = NoPrimitive
      THEN TypeError
      ELSE IF subject = "" /\ url = "" THEN NullRow
      ELSE [id |-> id,
            type |-> "Gazette",
            title |-> IF subject # "" THEN subject ELSE id,
            fileName |-> id,
            date |-> Today,
            sector |-> "Government",
            status |-> "Reviewed",
            aiStatus |-> "Processed",
            sourceUrl |-> IF url # "" THEN url ELSE Undefined,
            rawContent |-> IF text # "" THEN text ELSE Undefined]

\* policiesResult.map(mapPolicyToRow)
policyRowsOf(payload) ==
  [i \in 1..Len(payload.items) |-> mapPolicyToRow(payload.items[i])]

\* Array.isArray(gazettesResult) ? gazettesResult.map(..).filter(non-null) : []
gazetteRowsOf(payload) ==
  IF payload.isArray
  THEN SelectSeq([i \in 1..Len(payload.items) |-> mapGazetteToRow(payload.items[i], i - 1)],
                 LAMBDA r : r # NullRow)
  ELSE <<>>

\* faulty variant: the per-fetch .catch is missing, so a rejection reaches the outer
\* catch block like a payload that cannot be mapped
SettledNoCatch(outcome, payload) == IF outcome = "fulfilled" THEN payload ELSE NonArray

\* the value a fetch hands to Promise.all: the payload, or [] after .catch
Settled(outcome, payload) == IF outcome = "fulfilled" THEN payload ELSE Array(<<>>)

\* faulty variant: the gazette rows are spread first
mergedRowsGazettesFirst(policiesResult, gazettesResult) ==
  gazetteRowsOf(gazettesResult) \o policyRowsOf(policiesResult)

\* [...policyRows, ...gazetteRows]
mergedRows(policiesResult, gazettesResult) ==
  policyRowsOf(policiesResult) \o gazetteRowsOf(gazettesResult)

\* gazettesResult.map(mapGazetteToRow) throws when one of its calls does
gazetteMapThrows(payload) ==
  /\ payload.isArray
  /\ \E i \in 1..Len(payload.items) : mapGazetteToRow(payload.items[i], i - 1) = TypeError

\* the try block of loadDocuments throws: policiesResult.map when the payload
\* is no array, or the mapping of the gazette array
Throws(policiesResult, gazettesResult) ==
  ~policiesResult.isArray \/ gazetteMapThrows(gazettesResult)

\* faulty variant: the merged list is committed even when it is empty
rowsToCommitNoFallback(policiesResult, gazettesResult) ==
  IF Throws(policiesResult, gazettesResult) THEN sampleDocuments
  ELSE mergedRows(policiesResult, gazettesResult)

\* the argument loadDocuments passes to setDocuments, from the try block or
\* from the catch block
rowsToCommit(policiesResult, gazettesResult) ==
  IF Throws(policiesResult, gazettesResult) THEN sampleDocuments
  ELSE LET merged == mergedRows(policiesResult, gazettesResult)
       IN  IF Len(merged) > 0 THEN merged ELSE sampleDocuments

\* which setDocuments call that is
commitKind(policiesResult, gazettesResult) ==
  IF Throws(policiesResult, gazettesResult) THEN "catch"
  ELSE IF Len(mergedRows(policiesResult, gazettesResult)) > 0 THEN "merged"
  ELSE "sample"

\* faulty variant: the liveness flag is not consulted
commitGuardAlways(load) == TRUE

\* `if (active)` in front of both setDocuments calls
commitGuard(load) == load.active

defaultControls == [search |-> "", filter |-> "All", sort |-> "Date Desc", status |-> "All"]

\* useState<SortingState>([{ id: "date", desc: true }])
defaultSorting == <<[id |-> "date", desc |-> TRUE]>>

NoLoad == [active |-> FALSE, policies |-> "idle", gazettes |-> "idle", commit |-> "none"]

\* the continuation of loadDocuments after `await Promise.all`, run for
\* instance i once both fetches have settled with outcomes pol and gaz
loadDocumentsResume(i, pol, gaz) ==
  LET policiesResult == Settled(pol, backendPolicies)
      gazettesResult == Settled(gaz, backendGazettes)
      commits == commitGuard(loads[i])
  IN  /\ loads' = [loads EXCEPT ![i].policies = pol, ![i].gazettes = gaz,
                                ![i].commit = IF commits
                                              THEN commitKind(policiesResult, gazettesResult)
                                              ELSE "none"]
      \* React applies a state update only to an instance that is still mounted
      /\ documents' = IF commits /\ mounted /\ i = inst
                      THEN rowsToCommit(policiesResult, gazettesResult)
                      ELSE documents
      \* new table data: the table puts the page index back to its initial value
      /\ pageIndex' = IF documents' # documents THEN 0 ELSE pageIndex

\* faulty variant: useState starts from an empty list
MountDocumentListEmpty ==
  /\ ~mounted
  /\ inst < MaxMounts
  /\ mounted' = TRUE
  /\ inst' = inst + 1
  /\ documents' = <<>>
  /\ controls' = defaultControls
  /\ sorting' = defaultSorting
  /\ pageIndex' = 0
  /\ loads' = [loads EXCEPT ![inst + 1] =
                 [active |-> TRUE, policies |-> "pending", gazettes |-> "pending",
                  commit |-> "none"]]
  /\ analysesLoad' = inst + 1
  /\ rawPolicyModal' = NoModal
  /\ policyAnalyses' = <<>>
  /\ policyLoading' = NoEntries
  /\ policyAnswers' = NoEntries
  /\ UNCHANGED <<backendVars, clientVars, fetches, queries, chatVars, storeVars, viewerVars>>

\* faulty variant: a fresh instance starts with an empty Selection Store
MountDocumentListClearing ==
  /\ ~mounted
  /\ inst < MaxMounts
  /\ mounted' = TRUE
  /\ inst' = inst + 1
  /\ documents' = sampleDocuments
  /\ controls' = defaultControls
  /\ sorting' = defaultSorting
  /\ pageIndex' = 0
  /\ loads' = [loads EXCEPT ![inst + 1] =
                 [active |-> TRUE, policies |-> "pending", gazettes |-> "pending",
                  commit |-> "none"]]
  /\ analysesLoad' = inst + 1
  /\ rawPolicyModal' = NoModal
  /\ policyAnalyses' = <<>>
  /\ policyLoading' = NoEntries
  /\ policyAnswers' = NoEntries
  /\ selectedIds' = [k \in {} |-> FALSE]
  /\ UNCHANGED <<backendVars, clientVars, fetches, queries, chatVars, viewerVars>>

\* navigation to /documents: a fresh instance renders with its initial state
\* and its effect starts loadDocuments
MountDocumentList ==
  /\ ~mounted
  /\ inst < MaxMounts
  /\ mounted' = TRUE
  /\ inst' = inst + 1
  /\ documents' = sampleDocuments
  /\ controls' = defaultControls
  /\ sorting' = defaultSorting
  /\ pageIndex' = 0
  /\ loads' = [loads EXCEPT ![inst + 1] =
                 [active |-> TRUE, policies |-> "pending", gazettes |-> "pending",
                  commit |-> "none"]]
  /\ analysesLoad' = inst + 1
  /\ rawPolicyModal' = NoModal
  /\ policyAnalyses' = <<>>
  /\ policyLoading' = NoEntries
  /\ policyAnswers' = NoEntries
  /\ UNCHANGED <<backendVars, clientVars, fetches, queries, chatVars, storeVars, viewerVars>>

\* faulty variant: leaving the page also empties the Selection Store
UnmountDocumentListClearing ==
  /\ mounted
  /\ mounted' = FALSE
  /\ loads' = [loads EXCEPT ![inst].active = FALSE]
  /\ documents' = <<>>
  /\ controls' = defaultControls
  /\ sorting' = defaultSorting
  /\ pageIndex' = 0
  /\ selectedIds' = [k \in {} |-> FALSE]
  /\ analysesLoad' = 0
  /\ rawPolicyModal' = NoModal
  /\ policyAnalyses' = <<>>
  /\ policyLoading' = NoEntries
  /\ policyAnswers' = NoEntries
  /\ UNCHANGED <<inst, backendVars, clientVars, fetches, queries, chatVars, viewerVars>>

\* navigation away: the effect's cleanup runs and the instance state is gone
UnmountDocumentList ==
  /\ mounted
  /\ mounted' = FALSE
  /\ loads' = [loads EXCEPT ![inst].active = FALSE]
  /\ documents' = <<>>
  /\ controls' = defaultControls
  /\ sorting' = defaultSorting
  /\ pageIndex' = 0
  /\ analysesLoad' = 0
  /\ rawPolicyModal' = NoModal
  /\ policyAnalyses' = <<>>
  /\ policyLoading' = NoEntries
  /\ policyAnswers' = NoEntries
  /\ UNCHANGED <<inst, backendVars, clientVars, fetches, queries, chatVars, storeVars, viewerVars>>

\* apiClient.getPolicies() settles for instance i
PoliciesSettle(i, outcome) ==
  /\ loads[i].policies = "pending"
  /\ IF loads[i].gazettes = "pending"
     THEN /\ loads' = [loads EXCEPT ![i].policies = outcome]
          /\ UNCHANGED <<documents, pageIndex>>
     ELSE loadDocumentsResume(i, outcome, loads[i].gazettes)
  /\ UNCHANGED <<mounted, inst, controls, sorting, backendVars, clientVars, modalVars, askVars, chatVars, storeVars, viewerVars>>

\* apiClient.getGazettes() settles for instance i
GazettesSettle(i, outcome) ==
  /\ loads[i].gazettes = "pending"
  /\ IF loads[i].policies = "pending"
     THEN /\ loads' = [loads EXCEPT ![i].gazettes = outcome]
          /\ UNCHANGED <<documents, pageIndex>>
     ELSE loadDocumentsResume(i, loads[i].policies, outcome)
  /\ UNCHANGED <<mounted, inst, controls, sorting, backendVars, clientVars, modalVars, askVars, chatVars, storeVars, viewerVars>>

Outcomes == {"fulfilled", "rejected"}

(***************************************************************************)
(* Selection Store: stores/documentSelectionStore.ts.  selectedIds is a    *)
(* Record<string, boolean>: a function from the keys written so far.       *)
(***************************************************************************)
\* selectedIds: {}
EmptySelection == [k \in {} |-> FALSE]

\* Boolean(selectedIds[id]): an absent key reads as false
isSelected(state, id) == id \in DOMAIN state /\ state[id]

\* faulty variant: the spread of the previous entries is missing
setSelectedReplacing(state, id, value) == [k \in {id} |-> value]

\* { ...state.selectedIds, [id]: value }
setSelected(state, id, value) ==
  [k \in DOMAIN state \cup {id} |-> IF k = id THEN value ELSE state[k]]

RECURSIVE forEachAssign(_, _, _)
\* ids.forEach((id) => { next[id] = value })
forEachAssign(next, ids, value) ==
  IF ids = <<>> THEN next
  ELSE forEachAssign(setSelected(next, Head(ids), value), Tail(ids), value)

\* faulty variant: only the first listed id is written
setManySelectedFirstOnly(state, ids, value) ==
  IF ids = <<>> THEN state ELSE setSelected(state, Head(ids), value)

\* faulty variant: un-selecting deletes the key instead of writing false
setManySelectedDeleting(state, ids, value) ==
  IF value THEN forEachAssign(state, ids, value)
  ELSE [k \in DOMAIN state \ {ids[i] : i \in 1..Len(ids)} |-> state[k]]

\* the state setManySelected(ids, value) hands to set()
setManySelected(state, ids, value) == forEachAssign(state, ids, value)

\* set({ selectedIds: {} })
clearSelected(state) == EmptySelection

\* ids a direct client of the store passes: row ids and any other string
StoreIds == {"D-1001", "D-1002", "x-9"}

\* no direct call was made yet
NoCall == [op |-> "none", ids |-> <<>>, value |-> FALSE, before |-> EmptySelection]

\* useDocumentSelectionStore.getState().setSelected(id, value)
CallSetSelected(id, value) ==
  /\ selectedIds' = setSelected(selectedIds, id, value)
  /\ call' = [op |-> "setSelected", ids |-> <<id>>, value |-> value, before |-> selectedIds]
  /\ UNCHANGED <<pageVars, backendVars, viewerVars, modalVars, askVars, chatVars>>

\* useDocumentSelectionStore.getState().setManySelected(ids, value)
CallSetManySelected(ids, value) ==
  /\ selectedIds' = setManySelected(selectedIds, ids, value)
  /\ call' = [op |-> "setManySelected", ids |-> ids, value |-> value, before |-> selectedIds]
  /\ UNCHANGED <<pageVars, backendVars, viewerVars, modalVars, askVars, chatVars>>

\* useDocumentSelectionStore.getState().clearSelected()
CallClearSelected ==
  /\ selectedIds' = clearSelected(selectedIds)
  /\ call' = [op |-> "clearSelected", ids |-> <<>>, value |-> FALSE, before |-> selectedIds]
  /\ UNCHANGED <<pageVars, backendVars, viewerVars, modalVars, askVars, chatVars>>

(***************************************************************************)
(* Derived values of a DocumentListPage render.                            *)
(***************************************************************************)
\* the predicate of documents.filter for the controls ctl
\* faulty variant: the row fields are matched without lower-casing them
rowPassesCaseSensitive(row, ctl) ==
  LET search == lowerCase(trim(ctl.search))
      textPass == \/ Len(search) = 0
                  \/ includes(row.title, search)
                  \/ includes(row.fileName, search)
                  \/ includes(row.type, search)
      statusPass == ctl.status = "All" \/ row.status = ctl.status
  IN  textPass /\ statusPass

rowPasses(row, ctl) ==
  LET search == lowerCase(trim(ctl.search))
      textPass == \/ Len(search) = 0
                  \/ includes(lowerCase(row.title), search)
                  \/ includes(lowerCase(row.fileName), search)
                  \/ includes(lowerCase(row.type), search)
      statusPass == ctl.status = "All" \/ row.status = ctl.status
  IN  textPass /\ statusPass

filteredRowsOf(docs, ctl) == SelectSeq(docs, LAMBDA row : rowPasses(row, ctl))

\* texts typed into the search box
SearchTexts == {"", "retention", " POLICY "}

\* filteredRowsOf over the sample dataset, tabulated once per control value
\* (the useMemo of filteredRows; same values, computed once)
sampleFiltered ==
  [search \in SearchTexts, status \in StatusChips |->
     filteredRowsOf(sampleDocuments, [search |-> search, status |-> status])]

\* the value of the useMemo for rows docs and form values ctl
filteredRowsAt(docs, ctl) ==
  IF docs = sampleDocuments /\ <<ctl.search, ctl.status>> \in DOMAIN sampleFiltered
  THEN sampleFiltered[ctl.search, ctl.status]
  ELSE filteredRowsOf(docs, ctl)

filteredRows == filteredRowsAt(documents, controls)

\* filteredRows.map((row) => row.id)
filteredIds == [i \in 1..Len(filteredRows) |-> filteredRows[i].id]

\* faulty variant: the badge counts the selected ids of the store
selectedCountOfStore == Cardinality({id \in DOMAIN selectedIds : selectedIds[id]})

selectedCount == Cardinality({i \in 1..Len(filteredRows) : isSelected(selectedIds, filteredRows[i].id)})

\* faulty variant: the emptiness test is missing, so an empty filtered set
\* reads checked
allVisibleSelectedNoEmptyCheck ==
  \A i \in 1..Len(filteredRows) : isSelected(selectedIds, filteredRows[i].id)

allVisibleSelected ==
  /\ Len(filteredRows) > 0
  /\ \A i \in 1..Len(filteredRows) : isSelected(selectedIds, filteredRows[i].id)

(***************************************************************************)
(* Controls and selection handlers of DocumentListPage.                    *)
(***************************************************************************)
\* the search input changes (register("search"))
SetSearch(text) ==
  /\ mounted
  /\ controls' = [controls EXCEPT !.search = text]
  \* filteredRows is recomputed when controls.search changes: new table data
  /\ pageIndex' = IF text # controls.search THEN 0 ELSE pageIndex
  /\ UNCHANGED <<mounted, inst, loads, documents, sorting, backendVars, clientVars, modalVars, askVars, chatVars, storeVars, viewerVars>>

\* faulty variant: the chip also drops the selection of the rows it hides
SetStatusPruning(chip) ==
  /\ mounted
  /\ controls' = [controls EXCEPT !.status = chip]
  /\ selectedIds' = [k \in {id \in DOMAIN selectedIds :
                              \E i \in 1..Len(documents) :
                                 /\ documents[i].id = id
                                 /\ rowPasses(documents[i], [controls EXCEPT !.status = chip])}
                      |-> selectedIds[k]]
  /\ pageIndex' = IF chip # controls.status THEN 0 ELSE pageIndex
  /\ UNCHANGED <<mounted, inst, loads, documents, sorting, backendVars, clientVars, modalVars, askVars, chatVars, viewerVars>>

\* faulty variant: the page index survives the change of the table data
SetStatusKeepsPage(chip) ==
  /\ mounted
  /\ controls' = [controls EXCEPT !.status = chip]
  /\ UNCHANGED <<mounted, inst, loads, documents, sorting, pageIndex,
                 backendVars, clientVars, modalVars, askVars, chatVars, storeVars, viewerVars>>

\* a status chip is clicked: setValue("status", chip)
SetStatus(chip) ==
  /\ mounted
  /\ controls' = [controls EXCEPT !.status = chip]
  \* filteredRows is recomputed when controls.status changes: new table data
  /\ pageIndex' = IF chip # controls.status THEN 0 ELSE pageIndex
  /\ UNCHANGED <<mounted, inst, loads, documents, sorting, backendVars, clientVars, modalVars, askVars, chatVars, storeVars, viewerVars>>

\* the checkbox of the i-th filtered row is toggled
ToggleRow(i) ==
  /\ mounted
  /\ i \in 1..Len(filteredRows)
  /\ LET id == filteredRows[i].id
     IN  selectedIds' = setSelected(selectedIds, id, ~isSelected(selectedIds, id))
  /\ UNCHANGED <<pageVars, backendVars, clientVars, modalVars, askVars, chatVars, viewerVars>>

\* the header checkbox is toggled
ToggleSelectAll ==
  /\ mounted
  /\ selectedIds' = setManySelected(selectedIds, filteredIds, ~allVisibleSelected)
  /\ UNCHANGED <<pageVars, backendVars, clientVars, modalVars, askVars, chatVars, viewerVars>>

\* the Clear button of the bulk-action bar, rendered while selectedCount > 0
ClearSelection ==
  /\ mounted
  /\ selectedCount > 0
  /\ selectedIds' = clearSelected(selectedIds)
  /\ UNCHANGED <<pageVars, backendVars, clientVars, modalVars, askVars, chatVars, viewerVars>>

(***************************************************************************)
(* The table instance of DocumentListPage: useReactTable with the sorted   *)
(* and the pagination row model of @tanstack/react-table (version 8).      *)
(***************************************************************************)
\* initialState: { pagination: { pageSize: 6 } }
pageSize == 6

\* the accessor columns; the "select" column has enableSorting: false
SortableColumns == {"type", "title", "fileName", "date", "sector", "status", "aiStatus"}

\* column.getCanSort()
getCanSort(col) == col \in SortableColumns

\* the characters the data uses, in code-unit order
Ascii == " -./0123456789:<>ABCDEFGHIJKLMNOPQRSTUVWXYZ_abcdefghijklmnopqrstuvwxyz"

\* the rank of a one-character string in code-unit order
charCode ==
  [c \in {SubSeq(Ascii, i, i) : i \in 1..Len(Ascii)} |->
     CHOOSE i \in 1..Len(Ascii) : SubSeq(Ascii, i, i) = c]

RECURSIVE firstDifference(_, _, _)
\* the first position from i on at which a and b differ or one of them ends
firstDifference(a, b, i) ==
  IF i > Len(a) \/ i > Len(b) THEN i
  ELSE IF SubSeq(a, i, i) = SubSeq(b, i, i) THEN firstDifference(a, b, i + 1)
  ELSE i

\* sortingFns.basic: a === b ? 0 : a > b ? 1 : -1, strings compared by code unit
compareBasic(a, b) ==
  IF a = b THEN 0
  ELSE LET i == firstDifference(a, b, 1)
       IN  IF i > Len(a) THEN -1
           ELSE IF i > Len(b) THEN 1
           ELSE IF charCode[SubSeq(a, i, i)] < charCode[SubSeq(b, i, i)] THEN -1
           ELSE 1

RECURSIVE compareRows(_, _, _, _, _)
\* the comparator of getSortedRowModel for the rows at indexes i and j of
\* rows: the first directive that tells them apart decides (undefined values
\* after defined ones, reversed by desc), and the original index breaks ties
compareRows(rows, srt, k, i, j) ==
  IF k > Len(srt) THEN i - j
  ELSE LET a == rows[i][srt[k].id]
           b == rows[j][srt[k].id]
           sortInt == IF a = Undefined \/ b = Undefined
                      THEN (IF a = b THEN 0 ELSE IF a = Undefined THEN 1 ELSE -1)
                      ELSE compareBasic(a, b)
       IN  IF sortInt # 0
           THEN (IF srt[k].desc THEN -sortInt ELSE sortInt)
           ELSE compareRows(rows, srt, k + 1, i, j)

\* getSortedRowModel: rows in the order of the comparator (no directive: as is)
sortedRowsOf(rows, srt) ==
  IF Len(srt) = 0 THEN rows
  ELSE LET rank == [i \in 1..Len(rows) |->
                      Cardinality({j \in 1..Len(rows) : compareRows(rows, srt, 1, j, i) < 0})]
       IN  [p \in 1..Len(rows) |-> rows[CHOOSE i \in 1..Len(rows) : rank[i] = p - 1]]

\* table.getSortedRowModel().rows
sortedRows == sortedRowsOf(filteredRows, sorting)

\* table.getPageCount(): Math.ceil(rowCount / pageSize)
getPageCount == (Len(filteredRows) + pageSize - 1) \div pageSize

\* faulty variant: the slice of a page starts one row early
pageRowsOfOverlapping(rows, index) ==
  LET pageStart == index * pageSize
      pageEnd == IF pageStart + pageSize < Len(rows) THEN pageStart + pageSize ELSE Len(rows)
  IN  SubSeq(rows, IF pageStart = 0 THEN 1 ELSE pageStart, pageEnd)

\* getPaginationRowModel: rows.slice(pageIndex * pageSize, (pageIndex + 1) * pageSize)
pageRowsOf(rows, index) ==
  LET pageStart == index * pageSize
      pageEnd == IF pageStart + pageSize < Len(rows) THEN pageStart + pageSize ELSE Len(rows)
  IN  SubSeq(rows, pageStart + 1, pageEnd)

\* table.getRowModel().rows
pageRows == pageRowsOf(sortedRows, pageIndex)

\* table.getCanPreviousPage()
getCanPreviousPage == pageIndex > 0

\* table.getCanNextPage()
getCanNextPage == getPageCount # 0 /\ pageIndex < getPageCount - 1

\* table.setPageIndex: Math.max(0, Math.min(index, maxPageIndex)); no pageCount
\* option is passed, so maxPageIndex is Number.MAX_SAFE_INTEGER
setPageIndex(index) == IF index < 0 THEN 0 ELSE index

\* the range label "Showing {start}-{end} of {totalCount}"
currentCount == Len(pageRows)
totalCount == Len(filteredRows)
start == IF totalCount = 0 THEN 0 ELSE pageIndex * pageSize + 1
\* faulty variant: the end of the range assumes a full page
endOfFullPage == IF totalCount = 0 THEN 0 ELSE pageIndex * pageSize + pageSize
end == IF totalCount = 0 THEN 0 ELSE pageIndex * pageSize + currentCount

\* column.getIsSorted(): "asc", "desc", or "none" for false
getIsSorted(srt, col) ==
  IF \E k \in 1..Len(srt) : srt[k].id = col
  THEN LET k == CHOOSE k \in 1..Len(srt) : srt[k].id = col
       IN  IF srt[k].desc THEN "desc" ELSE "asc"
  ELSE "none"

\* column.getFirstSortDir(): no sortDescFirst is set, so getAutoSortDir decides
\* from the value of the first row: a string sorts ascending first
getFirstSortDir(col) ==
  IF Len(filteredRows) > 0 /\ filteredRows[1][col] # Undefined THEN "asc" ELSE "desc"

\* column.getNextSortingOrder(): first direction, then the other one, then
\* no sort (enableSortingRemoval is on by default)
getNextSortingOrder(srt, col) ==
  LET firstSortDirection == getFirstSortDir(col)
      isSorted == getIsSorted(srt, col)
  IN  IF isSorted = "none" THEN firstSortDirection
      ELSE IF isSorted # firstSortDirection THEN "none"
      ELSE IF isSorted = "desc" THEN "asc" ELSE "desc"

\* column.toggleSorting(undefined, multi): the updater handed to setSorting
toggleSorting(old, col, multi) ==
  LET existingSorting == \E k \in 1..Len(old) : old[k].id = col
      isLast == Len(old) > 0 /\ old[Len(old)].id = col
      nextSortingOrder == getNextSortingOrder(old, col)
      nextDesc == nextSortingOrder = "desc"
      chosen == IF Len(old) > 0 /\ multi
                THEN (IF existingSorting THEN "toggle" ELSE "add")
                ELSE IF Len(old) > 0 /\ ~isLast THEN "replace"
                ELSE IF existingSorting THEN "toggle"
                ELSE "replace"
      sortAction == IF chosen = "toggle" /\ nextSortingOrder = "none" THEN "remove" ELSE chosen
  IN  CASE sortAction = "add" -> Append(old, [id |-> col, desc |-> nextDesc])
        [] sortAction = "toggle" ->
             [k \in 1..Len(old) |-> IF old[k].id = col THEN [old[k] EXCEPT !.desc = nextDesc]
                                    ELSE old[k]]
        [] sortAction = "remove" -> SelectSeq(old, LAMBDA d : d.id # col)
        [] OTHER -> <<[id |-> col, desc |-> nextDesc]>>

\* the options of the sort dropdown
SortOptions == {"Date Desc", "Date Asc", "Status"}

\* the options of the filter dropdown
FilterOptions == {"All", "Type", "Sector"}

\* the SortingState setSortFromControl hands to setSorting
sortingOfControl(value) ==
  IF value = "Date Desc" THEN <<[id |-> "date", desc |-> TRUE]>>
  ELSE IF value = "Date Asc" THEN <<[id |-> "date", desc |-> FALSE]>>
  ELSE <<[id |-> "status", desc |-> FALSE]>>

\* the sort dropdown changes: setSortFromControl(value); the new sorting
\* state makes the table put the page index back to its initial value
SetSortFromControl(value) ==
  /\ mounted
  /\ value # controls.sort
  /\ controls' = [controls EXCEPT !.sort = value]
  /\ sorting' = sortingOfControl(value)
  /\ pageIndex' = 0
  /\ UNCHANGED <<mounted, inst, loads, documents, backendVars, clientVars, modalVars, askVars, chatVars, storeVars, viewerVars>>

\* the headers whose button is clicked
HeaderClicks == {"date", "type"}

\* the header button of a sortable column is clicked (multi: with shift held):
\* header.column.getToggleSortingHandler()
ToggleSortingHandler(col, multi) ==
  /\ mounted
  /\ getCanSort(col)
  /\ sorting' = toggleSorting(sorting, col, multi)
  /\ pageIndex' = 0
  /\ UNCHANGED <<mounted, inst, loads, documents, controls, backendVars, clientVars, modalVars, askVars, chatVars, storeVars, viewerVars>>

\* faulty variant: the filter value counts as a change of the table data
SetFilterResetsPage(value) ==
  /\ mounted
  /\ value # controls.filter
  /\ controls' = [controls EXCEPT !.filter = value]
  /\ pageIndex' = 0
  /\ UNCHANGED <<mounted, inst, loads, documents, sorting,
                 backendVars, clientVars, modalVars, askVars, chatVars, storeVars, viewerVars>>

\* the filter dropdown changes (register("filter")): only the form value moves
SetFilter(value) ==
  /\ mounted
  /\ value # controls.filter
  /\ controls' = [controls EXCEPT !.filter = value]
  /\ UNCHANGED <<mounted, inst, loads, documents, sorting, pageIndex,
                 backendVars, clientVars, modalVars, askVars, chatVars, storeVars, viewerVars>>

\* the Previous button, disabled unless getCanPreviousPage()
PreviousPage ==
  /\ mounted
  /\ getCanPreviousPage
  /\ pageIndex' = setPageIndex(pageIndex - 1)
  /\ UNCHANGED <<mounted, inst, loads, documents, controls, sorting,
                 backendVars, clientVars, modalVars, askVars, chatVars, storeVars, viewerVars>>

\* the Next button, disabled unless getCanNextPage()
NextPage ==
  /\ mounted
  /\ getCanNextPage
  /\ pageIndex' = setPageIndex(pageIndex + 1)
  /\ UNCHANGED <<mounted, inst, loads, documents, controls, sorting,
                 backendVars, clientVars, modalVars, askVars, chatVars, storeVars, viewerVars>>

\* one of the getPageCount() numbered page buttons
GoToPage(index) ==
  /\ mounted
  /\ index \in 0..(getPageCount - 1)
  /\ pageIndex' = setPageIndex(index)
  /\ UNCHANGED <<mounted, inst, loads, documents, controls, sorting,
                 backendVars, clientVars, modalVars, askVars, chatVars, storeVars, viewerVars>>

(***************************************************************************)
(* DocumentViewerPage: the runAnalysis effect, keyed by documentId.        *)
(***************************************************************************)
\* JavaScript null: for a response, and for an error text
Null == [null |-> TRUE]
NullText == "<null>"

\* route parameters the viewer is opened with
DocumentIds == {"D-1001", "G-7"}

\* AnalysisRunResponse values of the backend
AnalysisResponses ==
  { [impactSummary |-> "High impact on lending", riskScore |-> 72],
    [impactSummary |-> "No material impact", riskScore |-> 5] }

\* what apiClient.runAnalysis rejects with: an ApiError or another error
AnalysisFailures ==
  { [isApiError |-> TRUE, message |-> "Request failed (500)"],
    [isApiError |-> FALSE, message |-> "Failed to fetch"] }

\* the text the catch block builds
analysisErrorText(error) ==
  IF error.isApiError THEN "Analysis unavailable: " \o error.message
  ELSE "Analysis unavailable right now."

\* faulty variant: the liveness flag of the run is not consulted
analysisGuardAlways(run) == TRUE

\* `if (active)` in front of the state updates of runAnalysis
analysisGuard(run) == run.active

NewRun(d) ==
  [gazetteId |-> d, active |-> TRUE, status |-> "pending",
   response |-> Null, error |-> NullText]

\* the cleanup of the effect of the latest run
Cleanup(rs) ==
  IF rs = <<>> THEN rs ELSE [rs EXCEPT ![Len(rs)].active = FALSE]

\* navigation to /documents/analysis/d from outside the viewer
OpenViewer(d) ==
  /\ ~viewerMounted
  /\ ~mounted
  /\ Len(runs) < MaxRuns
  /\ viewerMounted' = TRUE
  /\ documentId' = d
  /\ analysisResult' = Null
  /\ analysisError' = NullText
  /\ runs' = Append(runs, NewRun(d))
  /\ panel' = panel + 1
  /\ draft' = ""
  /\ messages' = <<>>
  /\ isSending' = FALSE
  /\ UNCHANGED <<pageVars, backendVars, clientVars, modalVars, askVars, chats, sends, storeVars>>

\* the route parameter changes while the viewer stays mounted: the effect's
\* cleanup runs, then the effect runs again; the state is kept
ChangeDocument(d) ==
  /\ viewerMounted
  /\ d # documentId
  /\ Len(runs) < MaxRuns
  /\ documentId' = d
  /\ runs' = Append(Cleanup(runs), NewRun(d))
  /\ UNCHANGED <<viewerMounted, analysisResult, analysisError,
                 pageVars, backendVars, clientVars, modalVars, askVars, chatVars, storeVars>>

\* navigation away from the viewer
CloseViewer ==
  /\ viewerMounted
  /\ viewerMounted' = FALSE
  /\ documentId' = Undefined
  /\ runs' = Cleanup(runs)
  /\ analysisResult' = Null
  /\ analysisError' = NullText
  /\ panel' = panel
  /\ draft' = ""
  /\ messages' = <<>>
  /\ isSending' = FALSE
  /\ UNCHANGED <<pageVars, backendVars, clientVars, modalVars, askVars, chats, sends, storeVars>>

\* the request of run r resolves with response
AnalysisFulfilled(r, response) ==
  /\ r \in 1..Len(runs)
  /\ runs[r].status = "pending"
  /\ LET commits == analysisGuard(runs[r])
     IN  /\ runs' = [runs EXCEPT ![r].status = IF commits THEN "committed" ELSE "discarded",
                                 ![r].response = response]
         /\ IF commits /\ viewerMounted
            THEN /\ analysisResult' = response
                 /\ analysisError' = NullText
            ELSE UNCHANGED <<analysisResult, analysisError>>
  /\ UNCHANGED <<viewerMounted, documentId, pageVars, backendVars, clientVars, modalVars, askVars, chatVars, storeVars>>

\* faulty variant: the catch block leaves analysisResult as it is
AnalysisRejectedKeepingResult(r, error) ==
  /\ r \in 1..Len(runs)
  /\ runs[r].status = "pending"
  /\ LET commits == analysisGuard(runs[r])
     IN  /\ runs' = [runs EXCEPT ![r].status = IF commits THEN "committed" ELSE "discarded",
                                 ![r].error = analysisErrorText(error)]
         /\ IF commits /\ viewerMounted
            THEN /\ analysisError' = analysisErrorText(error)
                 /\ analysisResult' = analysisResult
            ELSE UNCHANGED <<analysisResult, analysisError>>
  /\ UNCHANGED <<viewerMounted, documentId, pageVars, backendVars, clientVars, modalVars, askVars, chatVars, storeVars>>

\* the request of run r rejects with error
AnalysisRejected(r, error) ==
  /\ r \in 1..Len(runs)
  /\ runs[r].status = "pending"
  /\ LET commits == analysisGuard(runs[r])
     IN  /\ runs' = [runs EXCEPT ![r].status = IF commits THEN "committed" ELSE "discarded",
                                 ![r].error = analysisErrorText(error)]
         /\ IF commits /\ viewerMounted
            THEN /\ analysisError' = analysisErrorText(error)
                 /\ analysisResult' = Null
            ELSE UNCHANGED <<analysisResult, analysisError>>
  /\ UNCHANGED <<viewerMounted, documentId, pageVars, backendVars, clientVars, modalVars, askVars, chatVars, storeVars>>

(***************************************************************************)
(* Initial states.                                                         *)
(***************************************************************************)
\* the application before /documents or /documents/analysis was visited
InitApp ==
  /\ mounted = FALSE
  /\ inst = 0
  /\ loads = [i \in 1..MaxMounts |-> NoLoad]
  /\ documents = <<>>
  /\ controls = defaultControls
  /\ sorting = defaultSorting
  /\ pageIndex = 0
  /\ selectedIds = EmptySelection
  /\ call = NoCall
  /\ viewerMounted = FALSE
  /\ documentId = Undefined
  /\ runs = <<>>
  /\ analysisResult = Null
  /\ analysisError = NullText
  /\ rawPolicyModal = NoModal
  /\ fetches = <<>>
  /\ policyAnalyses = <<>>
  /\ analysesLoad = 0
  /\ policyLoading = NoEntries
  /\ policyAnswers = NoEntries
  /\ queries = <<>>
  /\ panel = 0
  /\ draft = ""
  /\ messages = <<>>
  /\ isSending = FALSE
  /\ chats = <<>>
  /\ sends = 0

Init ==
  /\ backendPolicies \in PolicyPayloads
  /\ backendGazettes \in GazettePayloads
  /\ InitApp

(***************************************************************************)
(* Spec: the document data source over every backend.                      *)
(***************************************************************************)
Next ==
  \/ MountDocumentList
  \/ UnmountDocumentList
  \/ \E i \in 1..MaxMounts, outcome \in Outcomes : PoliciesSettle(i, outcome)
  \/ \E i \in 1..MaxMounts, outcome \in Outcomes : GazettesSettle(i, outcome)

Spec == Init /\ [][Next]_vars

(***************************************************************************)
(* SpecSelection: the controls and the Selection Store of a registry whose *)
(* backend is unreachable, so the rows stay the sample dataset.            *)
(***************************************************************************)
InitSelection ==
  /\ backendPolicies = NonArray
  /\ backendGazettes = NonArray
  /\ InitApp

NextSelection ==
  \/ MountDocumentList
  \/ \E text \in SearchTexts : SetSearch(text)
  \/ \E chip \in StatusChips : SetStatus(chip)
  \/ \E i \in 1..Len(sampleDocuments) : ToggleRow(i)
  \/ ToggleSelectAll
  \/ ClearSelection

SpecSelection == InitSelection /\ [][NextSelection]_vars

(***************************************************************************)
(* SpecViewer: the analysis loads of DocumentViewerPage.                   *)
(***************************************************************************)
InitViewer ==
  /\ backendPolicies = NonArray
  /\ backendGazettes = NonArray
  /\ InitApp

NextViewer ==
  \/ \E d \in DocumentIds : OpenViewer(d)
  \/ \E d \in DocumentIds : ChangeDocument(d)
  \/ CloseViewer
  \/ \E r \in 1..MaxRuns, response \in AnalysisResponses : AnalysisFulfilled(r, response)
  \/ \E r \in 1..MaxRuns, error \in AnalysisFailures : AnalysisRejected(r, error)

SpecViewer == InitViewer /\ [][NextViewer]_vars

(***************************************************************************)
(* SpecTable: filtering, sorting and paging of the registry table during   *)
(* one visit of /documents, over the sample rows and over the rows of one  *)
(* backend.                                                                *)
(***************************************************************************)
InitTable ==
  /\ backendPolicies = Array(<<PolicyItem("P-1", "KYC Master Direction", "2026-01-15", "Processed"),
                               PolicyItem("G-7", "Lending Circular", Undefined, Undefined)>>)
  /\ backendGazettes = Array(<<GazetteObject(Undefined, " Notice ", Undefined, "Body of the notice"),
                               GazetteObject("G-7", Undefined, "http://egazette/7.pdf", Undefined)>>)
  /\ InitApp

NextTable ==
  \/ MountDocumentList
  \/ \E i \in 1..MaxMounts, outcome \in Outcomes : PoliciesSettle(i, outcome)
  \/ \E i \in 1..MaxMounts, outcome \in Outcomes : GazettesSettle(i, outcome)
  \/ \E text \in SearchTexts : SetSearch(text)
  \/ \E chip \in StatusChips : SetStatus(chip)
  \/ \E value \in FilterOptions : SetFilter(value)
  \/ \E value \in SortOptions : SetSortFromControl(value)
  \/ \E col \in HeaderClicks, multi \in BOOLEAN : ToggleSortingHandler(col, multi)
  \/ PreviousPage
  \/ NextPage
  \/ \E index \in 0..(getPageCount - 1) : GoToPage(index)

SpecTable == InitTable /\ [][NextTable]_vars

(***************************************************************************)
(* SpecStore: the Selection Store called directly, with any ids and lists. *)
(***************************************************************************)
InitStore ==
  /\ backendPolicies = NonArray
  /\ backendGazettes = NonArray
  /\ InitApp

NextStore ==
  \/ \E id \in StoreIds, value \in BOOLEAN : CallSetSelected(id, value)
  \/ \E ids \in SeqOf(StoreIds, MaxIds), value \in BOOLEAN : CallSetManySelected(ids, value)
  \/ CallClearSelected

SpecStore == InitStore /\ [][NextStore]_vars

(***************************************************************************)
(* SpecSession: visits of /documents in which rows are selected while the  *)
(* rows load and the status chip and the page change.                      *)
(***************************************************************************)
\* the status chips clicked in these visits
SessionChips == {"All", "Manual"}

InitSession ==
  /\ backendPolicies = Array(<<PolicyItem("P-1", "KYC Master Direction", "2026-01-15", "Processed")>>)
  /\ backendGazettes = NonArray
  /\ InitApp

NextSession ==
  \/ MountDocumentList
  \/ UnmountDocumentList
  \/ \E i \in 1..MaxMounts, outcome \in Outcomes : PoliciesSettle(i, outcome)
  \/ \E i \in 1..MaxMounts, outcome \in Outcomes : GazettesSettle(i, outcome)
  \/ \E chip \in SessionChips : SetStatus(chip)
  \/ PreviousPage
  \/ NextPage
  \/ ToggleRow(1)
  \/ ToggleSelectAll
  \/ ClearSelection

SpecSession == InitSession /\ [][NextSession]_vars

(***************************************************************************)
(* Properties.                                                             *)
(***************************************************************************)
\* the load of the instance on screen
currentLoad == loads[inst]

\* C1: a step that changes the search text or the status filter leaves the
\* Selection Store exactly as it was, so ids of rows that left the filtered
\* set stay selected.
C1_FilterChangeKeepsSelection ==
  [][(controls'.search # controls.search \/ controls'.status # controls.status)
       => selectedIds' = selectedIds]_vars

\* C1 witness: a status chip hides rows and all 8 sample rows, the hidden
\* ones included, are selected.
C1_Witness ==
  /\ mounted
  /\ controls.status = "Manual"
  /\ Len(filteredRows) < Len(documents)
  /\ \A i \in 1..Len(documents) : isSelected(selectedIds, documents[i].id)

\* C2: a toggle of the header checkbox is one transition of the store, from
\* the state before to the state in which every listed id carries the
\* value and every other key is as before; no state in between exists.
C2_SetManyIsOneTransition ==
  [][ToggleSelectAll =>
       LET value == ~allVisibleSelected
           listed == {filteredIds[i] : i \in 1..Len(filteredIds)}
       IN  /\ DOMAIN selectedIds' = DOMAIN selectedIds \cup listed
           /\ \A id \in listed : selectedIds'[id] = value
           /\ \A id \in DOMAIN selectedIds \ listed : selectedIds'[id] = selectedIds[id]]_vars

\* C2 witness: the header checkbox reads checked over the 8 unfiltered rows.
C2_Witness ==
  /\ mounted
  /\ Len(filteredRows) = Len(sampleDocuments)
  /\ allVisibleSelected
  /\ selectedCount = Len(sampleDocuments)

\* C3: once the cleanup of a started load has run and the load has not
\* committed, no later step makes it call setDocuments, and the steps of
\* that load leave the displayed rows alone.
C3_UnmountedLoadNeverCommits ==
  [][\A i \in 1..MaxMounts :
       (loads[i].policies # "idle" /\ ~loads[i].active /\ loads[i].commit = "none")
         => /\ loads'[i].commit = "none"
            /\ (loads'[i] # loads[i] => documents' = documents)]_vars

\* C3 witness: both fetches of a load settled after its cleanup, one
\* fulfilled and one rejected, and it committed nothing.
C3_Witness ==
  \E i \in 1..MaxMounts :
    /\ ~loads[i].active
    /\ loads[i].policies = "fulfilled"
    /\ loads[i].gazettes = "rejected"
    /\ loads[i].commit = "none"

\* C4 (final state): while the viewer is mounted and the request of the
\* latest run has settled, the state holds the outcome of that run.
C4_StateIsLatestOutcome ==
  (viewerMounted /\ runs # <<>> /\ runs[Len(runs)].status # "pending")
    => /\ runs[Len(runs)].status = "committed"
       /\ analysisResult = runs[Len(runs)].response
       /\ analysisError = runs[Len(runs)].error

\* C4 (step): the settling of a superseded run writes neither analysisResult
\* nor analysisError.
C4_StaleSettleWritesNothing ==
  \A r \in 1..Len(runs) :
    (runs[r].status = "pending" /\ ~runs[r].active /\ runs'[r].status # "pending")
      => /\ analysisResult' = analysisResult
         /\ analysisError' = analysisError
         /\ runs'[r].status = "discarded"

\* C4: a superseded in-flight analysis request never overwrites the state,
\* whichever request settles first, and the state after both settled is the
\* outcome of the later request.
C4_SupersededNeverOverwrites ==
  []C4_StateIsLatestOutcome /\ [][C4_StaleSettleWritesNothing]_vars

\* C4 witness: the request for A settled after documentId changed to B and
\* was discarded, B's request committed, and the two outcomes differ.
C4_Witness ==
  /\ viewerMounted
  /\ Len(runs) = 2
  /\ runs[1].gazetteId # runs[2].gazetteId
  /\ runs[1].status = "discarded"
  /\ runs[2].status = "committed"
  /\ runs[1].response # Null
  /\ runs[2].error # NullText
  /\ analysisError = runs[2].error

\* C5: the rows are committed only once both fetches have settled (until
\* then the rows are the initial ones), and a committed merged list is the
\* policy rows in response order followed by the gazette rows in response
\* order.
C5_MergeAfterBothSettled ==
  mounted =>
    LET l == currentLoad
        P == IF l.policies = "fulfilled" THEN backendPolicies.items ELSE <<>>
        G == IF l.gazettes = "fulfilled" THEN gazetteRowsOf(backendGazettes) ELSE <<>>
    IN  /\ (l.policies = "pending" \/ l.gazettes = "pending")
             => (l.commit = "none" /\ documents = sampleDocuments)
        /\ (l.policies # "pending" /\ l.gazettes # "pending") => l.commit # "none"
        /\ l.commit = "merged"
             => /\ Len(documents) = Len(P) + Len(G)
                /\ \A k \in 1..Len(P) : documents[k] = mapPolicyToRow(P[k])
                /\ \A k \in 1..Len(G) : documents[Len(P) + k] = G[k]

\* C5 witness: a committed list with two policy rows of different ids and
\* at least one gazette row.
C5_Witness ==
  /\ mounted
  /\ currentLoad.commit = "merged"
  /\ Len(backendPolicies.items) = 2
  /\ backendPolicies.items[1].id # backendPolicies.items[2].id
  /\ Len(documents) > 2
  /\ documents[3].type = "Gazette"

\* C6: the displayed row set of a mounted registry is never empty: it is
\* the sample dataset, or the non-empty merged result of a settled load.
C6_RowsNeverEmpty ==
  mounted =>
    /\ Len(documents) > 0
    /\ \/ documents = sampleDocuments
       \/ /\ currentLoad.commit = "merged"
          /\ currentLoad.policies # "pending"
          /\ currentLoad.gazettes # "pending"

\* C6 witness: both fetches fulfilled, nothing usable came back, and the
\* sample dataset is displayed.
C6_Witness ==
  /\ mounted
  /\ currentLoad.policies = "fulfilled"
  /\ currentLoad.gazettes = "fulfilled"
  /\ currentLoad.commit = "sample"
  /\ Len(backendGazettes.items) > 0
  /\ documents = sampleDocuments

C8_BothFailShowsSample ==
  LET l == currentLoad
      noPolicyRows == l.policies = "rejected" \/ Len(backendPolicies.items) = 0
      noGazetteRows == l.gazettes = "rejected" \/ Len(gazetteRowsOf(backendGazettes)) = 0
  IN  (mounted /\ l.policies # "pending" /\ l.gazettes # "pending"
         /\ noPolicyRows /\ noGazetteRows)
        => /\ l.commit # "none"
           /\ Len(documents) = 8
           /\ [i \in 1..8 |-> documents[i].id]
                = <<"D-1001", "D-1002", "D-1003", "D-1004",
                    "D-1005", "D-1006", "D-1007", "D-1008">>
           /\ documents = sampleDocuments

\* C8 witness: both fetches were rejected and the load has committed.
C8_Witness ==
  /\ mounted
  /\ currentLoad.policies = "rejected"
  /\ currentLoad.gazettes = "rejected"
  /\ currentLoad.commit = "sample"

\* C9 (as claimed): the ids of the loaded rows are pairwise distinct for
\* every pair of backend responses; stated here for the responses in which
\* neither collection repeats an id of its own, so that a violation is a
\* collision between the two collections.
C9_IdsPairwiseDistinct ==
  LET P == backendPolicies.items
      G == backendGazettes.items
      ownIdsDistinct ==
        /\ \A i, j \in 1..Len(P) : i # j => P[i].id # P[j].id
        /\ \A i, j \in 1..Len(G) :
             (i # j /\ G[i].id # Undefined) => G[i].id # G[j].id
  IN  (mounted /\ ownIdsDistinct) =>
        \A i, j \in 1..Len(documents) : i # j => documents[i].id # documents[j].id

\* C10 (as claimed): every loaded row has a status among Reviewed,
\* Unreviewed and Manual, so it is listed under one non-All status chip.
C10_StatusInChipSet ==
  mounted =>
    \A i \in 1..Len(documents) : documents[i].status \in StatusChips \ {"All"}

\* C11: filteredRows is the subsequence of the rows, in their original order,
\* made of exactly the rows for which (the trimmed, lower-cased search text is
\* empty or occurs in the lower-cased title, fileName or type) and (the status
\* token is All or equals the row's status); with an empty search and status
\* All it is the whole row list.
C11_FilteredRowsIsOrderedFilter ==
  mounted =>
    LET q == lowerCase(trim(controls.search))
        matches(row) ==
          /\ \/ q = ""
             \/ includes(lowerCase(row.title), q)
             \/ includes(lowerCase(row.fileName), q)
             \/ includes(lowerCase(row.type), q)
          /\ controls.status = "All" \/ row.status = controls.status
        kept == {i \in 1..Len(documents) : matches(documents[i])}
    IN  /\ Len(filteredRows) = Cardinality(kept)
        /\ \A i \in kept : filteredRows[Cardinality({j \in kept : j <= i})] = documents[i]
        /\ (q = "" /\ controls.status = "All") => filteredRows = documents

\* a search with surrounding blanks and capitals, together with a status chip,
\* keeps the first and the last sample row
C11_Witness ==
  /\ mounted
  /\ controls.search = " POLICY "
  /\ controls.status = "Reviewed"
  /\ documents = sampleDocuments
  /\ filteredRows = <<sampleDocuments[1], sampleDocuments[8]>>

C13_OneActivePreset ==
  mounted => sorting \in {sortingOfControl(value) : value \in SortOptions}

\* C14: with N filtered rows and page size 6, the pages 0..ceil(N/6)-1 taken
\* together are exactly the sorted filtered rows: the sorted rows are a
\* rearrangement of the filtered rows in the order of the leading sort
\* directive, the k-th sorted row is the row at
\* offset (k-1) mod 6 of page (k-1) div 6, and no page holds anything else, so
\* the page sizes sum to N, no row is on two pages and no row is missing.
C14_PagesPartitionSortedRows ==
  mounted =>
    LET N == Len(filteredRows)
        rows == sortedRows
        pages == 0..(getPageCount - 1)
        page == [p \in pages |-> pageRowsOf(rows, p)]
        occurrences(s, x) == Cardinality({i \in 1..Len(s) : s[i] = x})
    IN  /\ getPageCount = (IF N = 0 THEN 0 ELSE ((N - 1) \div pageSize) + 1)
        /\ Len(rows) = N
        /\ \A i \in 1..N : occurrences(rows, filteredRows[i]) = occurrences(filteredRows, filteredRows[i])
        /\ \A k \in 1..N :
              LET p == (k - 1) \div pageSize
                  o == ((k - 1) % pageSize) + 1
              IN  p \in pages /\ o <= Len(page[p]) /\ page[p][o] = rows[k]
        /\ \A p \in pages :
              /\ Len(page[p]) \in 1..pageSize
              /\ p * pageSize + Len(page[p]) <= N
        \* sorted: neighbours are in the order of the leading directive
        /\ sorting # <<>> =>
              \A k \in 1..(N - 1) :
                 LET c == compareBasic(rows[k][sorting[1].id], rows[k + 1][sorting[1].id])
                 IN  IF sorting[1].desc THEN c >= 0 ELSE c <= 0

\* the eight sample rows by ascending date: the second page holds the two
\* newest rows
C14_Witness ==
  /\ mounted
  /\ sorting = <<[id |-> "date", desc |-> FALSE]>>
  /\ Len(filteredRows) = 8
  /\ pageIndex = 1
  /\ pageRows = <<sampleDocuments[2], sampleDocuments[1]>>

C17_SelectAllCheckbox ==
  /\ [](mounted =>
          (allVisibleSelected <=>
             /\ filteredRows # <<>>
             /\ \A k \in 1..Len(filteredRows) :
                   /\ filteredRows[k].id \in DOMAIN selectedIds
                   /\ selectedIds[filteredRows[k].id]))
  /\ [][ToggleSelectAll =>
          LET value == ~allVisibleSelected
          IN  /\ \A k \in 1..Len(filteredRows) : selectedIds'[filteredRows[k].id] = value
              /\ (value /\ filteredRows # <<>>) => allVisibleSelected'
              /\ ~value => selectedCount' = 0 /\ ~allVisibleSelected']_vars

\* every row of the first page is selected, the two rows of the second page
\* are not, and the checkbox reads unchecked
C17_Witness ==
  /\ mounted
  /\ Len(filteredRows) = 8
  /\ pageIndex = 0
  /\ \A k \in 1..Len(pageRows) : isSelected(selectedIds, pageRows[k].id)
  /\ selectedCount = Len(pageRows)
  /\ ~allVisibleSelected

\* C18: the selected-count badge is the number of rows of the whole filtered
\* set whose id is selected in the store, so 0 <= selectedCount <=
\* filteredRows.length, and over a non-empty filtered set selectedCount equals
\* filteredRows.length iff the select-all checkbox is checked.
C18_SelectedCountBadge ==
  mounted =>
    LET n == Len(filteredRows)
        chosen == {k \in 1..n : /\ filteredRows[k].id \in DOMAIN selectedIds
                                /\ selectedIds[filteredRows[k].id]}
    IN  /\ selectedCount = Cardinality(chosen)
        /\ 0 <= selectedCount /\ selectedCount <= n
        /\ n > 0 => (selectedCount = n <=> allVisibleSelected)

\* a status chip shows two rows, both selected, while further selected rows
\* are hidden: the badge reads 2
C18_Witness ==
  /\ mounted
  /\ controls.status = "Manual"
  /\ Len(filteredRows) = 2
  /\ selectedCount = 2
  /\ allVisibleSelected
  /\ Cardinality({id \in DOMAIN selectedIds : selectedIds[id]}) = 5

\* C19 (as amended): setManySelected(ids, true) followed by
\* setManySelected(ids, false) leaves every listed id with the value false and
\* every other id with the value it had before the first call; the selection
\* reads as before the first call exactly when no listed id was selected then.
C19_RoundTripClearsListedIds ==
  [][(/\ call.op = "setManySelected" /\ call.value
      /\ call'.op = "setManySelected" /\ ~call'.value
      /\ call'.ids = call.ids /\ call'.before = selectedIds)
       => LET listed == {call.ids[i] : i \in 1..Len(call.ids)}
          IN  /\ DOMAIN selectedIds' = DOMAIN call.before \cup listed
              /\ \A id \in listed : selectedIds'[id] = FALSE
              /\ \A id \in DOMAIN call.before \ listed : selectedIds'[id] = call.before[id]
              /\ (\A id \in StoreIds : isSelected(selectedIds', id) = isSelected(call.before, id))
                   <=> (\A id \in listed : ~isSelected(call.before, id))]_vars

\* the second call of a round trip over two ids has run: both read false,
\* one of them was selected before the round trip, and a third id kept true
C19_Witness ==
  /\ call.op = "setManySelected"
  /\ ~call.value
  /\ call.ids = <<"D-1001", "x-9">>
  /\ isSelected(call.before, "D-1001") /\ isSelected(call.before, "x-9")
  /\ selectedIds["D-1001"] = FALSE /\ selectedIds["x-9"] = FALSE
  /\ isSelected(selectedIds, "D-1002")

\* C19 (as stated): setManySelected(ids, true) followed by
\* setManySelected(ids, false) returns the listed ids to their selection
\* state of before the first call.
C19_RoundTripRestores ==
  [][(/\ call.op = "setManySelected" /\ call.value
      /\ call'.op = "setManySelected" /\ ~call'.value
      /\ call'.ids = call.ids /\ call'.before = selectedIds)
       => \A i \in 1..Len(call.ids) :
             isSelected(selectedIds', call.ids[i]) = isSelected(call.before, call.ids[i])]_vars

\* C20: setSelected(id, value) changes only the entry of id and
\* setManySelected(ids, value) only the entries of the listed ids: every
\* other id of the store keeps its value; both accept any id and any list,
\* the empty list and lists with repeated ids included.
C20_OnlyListedEntriesChange ==
  LET listed == {call.ids[i] : i \in 1..Len(call.ids)}
  IN  /\ call.op \in {"setSelected", "setManySelected"} =>
            /\ DOMAIN selectedIds = DOMAIN call.before \cup listed
            /\ \A id \in listed : selectedIds[id] = call.value
            /\ \A id \in DOMAIN call.before \ listed : selectedIds[id] = call.before[id]
      /\ \A id \in StoreIds, value \in BOOLEAN : ENABLED CallSetSelected(id, value)
      /\ \A ids \in SeqOf(StoreIds, MaxIds), value \in BOOLEAN :
            ENABLED CallSetManySelected(ids, value)

\* a list that repeats one id was un-selected while another id stays selected
C20_Witness ==
  /\ call.op = "setManySelected"
  /\ call.ids = <<"D-1001", "D-1001">>
  /\ ~call.value
  /\ isSelected(call.before, "D-1001") /\ isSelected(call.before, "x-9")
  /\ selectedIds["D-1001"] = FALSE
  /\ isSelected(selectedIds, "x-9")

MaxElements == 2

GazetteElements ==
  GazetteItems \cup
  { GazetteObject("G-8", "", "  ", "text without subject"),
    GazetteObject(Undefined, NoPrimitive, "http://egazette/9.pdf", Undefined) }

GazetteResponses == {Array(s) : s \in SeqOf(GazetteElements, MaxElements)} \cup {NonArray}

InitGazette ==
  /\ backendPolicies \in {Array(<<>>), Array(<<PolicyItem("P-1", "KYC Master Direction", "2026-01-15", "Processed")>>)}
  /\ backendGazettes \in GazetteResponses
  /\ InitApp

NextGazette ==
  \/ MountDocumentList
  \/ \E i \in 1..MaxMounts, outcome \in Outcomes : PoliciesSettle(i, outcome)
  \/ \E i \in 1..MaxMounts, outcome \in Outcomes : GazettesSettle(i, outcome)

SpecGazette == InitGazette /\ [][NextGazette]_vars

\* the trimmed string form of a field of a gazette element is empty
fieldIsBlank(item, field) ==
  ~item.isObject \/ item[field] = Undefined \/ trim(item[field]) = ""

\* C22: gazette normalization is total and never throws.  Whenever a load has
\* run its continuation on a fulfilled gazette response, no mapGazetteToRow call
\* threw (the load did not end in the catch block); an element yields no row iff
\* its trimmed subject and trimmed url are both empty, non-record elements
\* included; otherwise it yields one row whose id is the record's id when present
\* and otherwise "gazette-" + the element's index in the source array; and a
\* response that is no array yields no gazette rows.
C22_GazetteNormalizationTotal ==
  \A i \in 1..inst :
    (loads[i].commit # "none" /\ loads[i].gazettes = "fulfilled") =>
      /\ loads[i].commit # "catch"
      /\ ~backendGazettes.isArray => gazetteRowsOf(backendGazettes) = <<>>
      /\ \A k \in 1..Len(backendGazettes.items) :
           LET item == backendGazettes.items[k]
               row == mapGazetteToRow(item, k - 1)
           IN  /\ row # TypeError
               /\ row = NullRow <=> (fieldIsBlank(item, "subject") /\ fieldIsBlank(item, "url"))
               /\ row # NullRow =>
                    row.id = IF item.isObject /\ item.id # Undefined THEN item.id
                             ELSE "gazette-" \o ToString(k - 1)

\* the same statement for the elements whose fields String() can convert
C22_TotalOnConvertibleFields ==
  \A i \in 1..inst :
    (loads[i].commit # "none" /\ loads[i].gazettes = "fulfilled"
       /\ ~gazetteMapThrows(backendGazettes)) =>
      /\ loads[i].commit # "catch"
      /\ ~backendGazettes.isArray => gazetteRowsOf(backendGazettes) = <<>>
      /\ \A k \in 1..Len(backendGazettes.items) :
           LET item == backendGazettes.items[k]
               row == mapGazetteToRow(item, k - 1)
           IN  /\ row = NullRow <=> (fieldIsBlank(item, "subject") /\ fieldIsBlank(item, "url"))
               /\ row # NullRow =>
                    row.id = IF item.isObject /\ item.id # Undefined THEN item.id
                             ELSE "gazette-" \o ToString(k - 1)

(***************************************************************************)
(* The raw-policy modal of DocumentListPage: openRawPolicy and Close.      *)
(***************************************************************************)
MaxFetches == 2

\* rawPolicyContent[id] ?? "Raw policy text is not available for this document."
rawPolicyContentOr(id) ==
  IF id = "D-1001" THEN "Section 1. Retention Horizon\nAll regulated records must be retained for seven years.\n\nSection 2. Retrieval SLA\nRequested records must be retrievable within 48 hours, including audit evidence." ELSE
  IF id = "D-1002" THEN "Section 1. Incident Disclosure\nAll material incidents require legal pre-review and final officer sign-off.\n\nSection 2. Notification Sequence\nNotify regulator channel within prescribed jurisdictional windows." ELSE
  IF id = "D-1003" THEN "Section 1. Access Procedure\nAll privileged access events must include reason code, approver, and timestamp.\n\nSection 2. Verification\nQuarterly control verification is mandatory." ELSE
  IF id = "D-1004" THEN "Section 1. Screening Rule\nCounterparty screening must run before final transaction authorization.\n\nSection 2. Escalation\nPotential sanctions matches must be escalated to legal ops immediately." ELSE
  IF id = "D-1005" THEN "Section 1. Due Diligence\nVendor onboarding requires sanctions, ownership, and litigation review.\n\nSection 2. Renewal\nRenewal controls must re-validate risk tier and evidence completeness." ELSE
  IF id = "D-1006" THEN "Section 1. Consumer Data Handling\nProcessing requires lawful basis tagging and retention clock assignment.\n\nSection 2. Deletion\nData deletion requests must be fulfilled with immutable audit entries." ELSE
  IF id = "D-1007" THEN "Section 1. Escalation Protocol\nCritical findings route to risk committee with 24-hour turnaround.\n\nSection 2. Recordkeeping\nEach escalation event must preserve chain-of-custody data." ELSE
  IF id = "D-1008" THEN "Section 1. Harmonization\nPolicy conflicts across regions must be mapped and normalized before publication.\n\nSection 2. Governance\nAll harmonized updates require legal and compliance co-signatures." ELSE
  "Raw policy text is not available for this document."

\* { id: row.id, title: row.title, fileName: row.fileName, content }
ModalOf(row, content) ==
  [id |-> row.id, title |-> row.title, fileName |-> row.fileName, content |-> content]

\* row.rawContent || row.sourceUrl
hasLocalContent(row) == ~Falsy(row.rawContent) \/ ~Falsy(row.sourceUrl)

\* row.rawContent ?? (row.sourceUrl ? `View Gazette PDF:\n${row.sourceUrl}` : "No policy text available.")
localContent(row) ==
  IF row.rawContent # Undefined THEN row.rawContent
  ELSE IF ~Falsy(row.sourceUrl) THEN "View Gazette PDF:\n" \o row.sourceUrl
  ELSE "No policy text available."

LoadingContent == "Loading policy content..."

\* detail.content || "No policy text available."
fetchedContent(detail) ==
  IF Falsy(detail.content) THEN "No policy text available." ELSE detail.content

\* the PolicyDetailResponse values GET /api/policies/{id} may answer with
PolicyDetails(id) ==
  { [content |-> Undefined], [content |-> ""], [content |-> "Full text of " \o id] }

\* faulty variant: the early return for rows with local content is missing
openRawPolicyAlwaysFetching(row) ==
  /\ mounted
  /\ Len(fetches) < MaxFetches
  /\ rawPolicyModal' = ModalOf(row, LoadingContent)
  /\ fetches' = Append(fetches, [inst |-> inst, row |-> row, status |-> "pending"])
  /\ UNCHANGED <<pageVars, backendVars, clientVars, storeVars, viewerVars, askVars, chatVars>>

\* a click on the file name of a displayed row: openRawPolicy up to its return
\* or its await
openRawPolicy(row) ==
  /\ mounted
  /\ IF hasLocalContent(row)
     THEN /\ rawPolicyModal' = ModalOf(row, localContent(row))
          /\ UNCHANGED fetches
     ELSE /\ Len(fetches) < MaxFetches
          /\ rawPolicyModal' = ModalOf(row, LoadingContent)
          /\ fetches' = Append(fetches, [inst |-> inst, row |-> row, status |-> "pending"])
  /\ UNCHANGED <<pageVars, backendVars, clientVars, storeVars, viewerVars, askVars, chatVars>>

\* apiClient.getPolicyById of request k resolves with detail: the rest of the
\* try block.  React drops the update when the instance that made the request
\* is gone
GetPolicyFulfilled(k, detail) ==
  /\ k \in 1..Len(fetches)
  /\ fetches[k].status = "pending"
  /\ fetches' = [fetches EXCEPT ![k].status = "fulfilled"]
  /\ rawPolicyModal' = IF mounted /\ fetches[k].inst = inst
                       THEN ModalOf(fetches[k].row, fetchedContent(detail))
                       ELSE rawPolicyModal
  /\ UNCHANGED <<pageVars, backendVars, clientVars, storeVars, viewerVars, askVars, chatVars>>

\* apiClient.getPolicyById of request k rejects: the catch block
GetPolicyRejected(k) ==
  /\ k \in 1..Len(fetches)
  /\ fetches[k].status = "pending"
  /\ fetches' = [fetches EXCEPT ![k].status = "rejected"]
  /\ rawPolicyModal' = IF mounted /\ fetches[k].inst = inst
                       THEN ModalOf(fetches[k].row, rawPolicyContentOr(fetches[k].row.id))
                       ELSE rawPolicyModal
  /\ UNCHANGED <<pageVars, backendVars, clientVars, storeVars, viewerVars, askVars, chatVars>>

\* the Close button of the modal: setRawPolicyModal(null)
CloseRawPolicy ==
  /\ mounted
  /\ rawPolicyModal # NoModal
  /\ rawPolicyModal' = NoModal
  /\ UNCHANGED <<fetches, pageVars, backendVars, clientVars, storeVars, viewerVars, askVars, chatVars>>

(***************************************************************************)
(* SpecModal: one visit of the registry whose backend has a policy and two *)
(* gazette notices (one with a url only, one with url and text), and the   *)
(* view-raw action on one sample row, the policy row and the notices.      *)
(***************************************************************************)
\* the rows of table.getRowModel(), each of which renders a view-raw button
displayedRows == LET rows == pageRows IN {rows[n] : n \in 1..Len(rows)}

ModalRowIds == {"D-1001", "P-1", "G-7", "G-9"}

InitModal ==
  /\ backendPolicies = Array(<<PolicyItem("P-1", "KYC Master Direction", "2026-01-15", "Processed")>>)
  /\ backendGazettes = Array(<<GazetteObject("G-7", Undefined, "http://egazette/7.pdf", Undefined),
                               GazetteObject("G-9", "Notice", "http://egazette/9.pdf", "Body of the notice")>>)
  /\ InitApp

NextModal ==
  \/ MountDocumentList
  \/ \E i \in 1..MaxMounts : PoliciesSettle(i, "fulfilled")
  \/ \E i \in 1..MaxMounts : GazettesSettle(i, "fulfilled")
  \/ \E row \in displayedRows : row.id \in ModalRowIds /\ openRawPolicy(row)
  \/ \E k \in 1..Len(fetches) : \E detail \in PolicyDetails(fetches[k].row.id) : GetPolicyFulfilled(k, detail)
  \/ \E k \in 1..Len(fetches) : GetPolicyRejected(k)
  \/ CloseRawPolicy

SpecModal == InitModal /\ [][NextModal]_vars

\* a step of the view-raw action shows the local content without a request, or
\* the loading text with one new request
ViewRawOpenStep ==
  \A row \in {documents[n] : n \in 1..Len(documents)} :
        openRawPolicy(row) =>
          IF ~Falsy(row.rawContent) \/ ~Falsy(row.sourceUrl)
          THEN /\ rawPolicyModal' =
                    ModalOf(row, IF ~Falsy(row.rawContent) THEN row.rawContent
                                 ELSE "View Gazette PDF:\n" \o row.sourceUrl)
               /\ fetches' = fetches
          ELSE /\ rawPolicyModal' = ModalOf(row, LoadingContent)
               /\ Len(fetches') = Len(fetches) + 1
               /\ fetches'[Len(fetches')].row = row
               /\ fetches'[Len(fetches')].status = "pending"

\* request k belongs to the row whose loading text the modal shows
showsLoadingOf(k) == rawPolicyModal = ModalOf(fetches[k].row, LoadingContent)

\* a failed request turns the loading text into the local fallback text
ViewRawRejectedStep ==
  \A k \in 1..Len(fetches) :
    (GetPolicyRejected(k) /\ showsLoadingOf(k)) =>
      rawPolicyModal' = ModalOf(fetches[k].row, rawPolicyContentOr(fetches[k].row.id))

\* C23 (amended): for a row that carries rawContent or sourceUrl, the view-raw
\* action opens the modal with the local content (rawContent, else the
\* source-URL link text) and issues no getPolicyById request; for a row with
\* neither, the modal goes from the loading text to the fetched content on
\* success, or to "No policy text available." when the fetched content is
\* absent or empty, and to the local fallback text on failure.
C23_ViewRawLocalOrFetched ==
  /\ [][ViewRawOpenStep]_vars
  /\ [][\A k \in 1..Len(fetches) : \A detail \in PolicyDetails(fetches[k].row.id) :
          (GetPolicyFulfilled(k, detail) /\ showsLoadingOf(k)) =>
            rawPolicyModal' =
              ModalOf(fetches[k].row,
                      IF detail.content = Undefined \/ detail.content = ""
                      THEN "No policy text available." ELSE detail.content)]_vars
  /\ [][ViewRawRejectedStep]_vars

\* a request for a row without local content succeeded with empty content and
\* the modal of that row shows the placeholder text
C23_Witness ==
  /\ rawPolicyModal # NoModal
  /\ rawPolicyModal.content = "No policy text available."
  /\ \E k \in 1..Len(fetches) :
       fetches[k].status = "fulfilled" /\ fetches[k].row.id = rawPolicyModal.id

\* C23 as stated: on success the modal goes from the loading text to the
\* fetched content, whatever that content is.
C23_ViewRawShowsFetchedContent ==
  /\ [][ViewRawOpenStep]_vars
  /\ [][\A k \in 1..Len(fetches) : \A detail \in PolicyDetails(fetches[k].row.id) :
          (GetPolicyFulfilled(k, detail) /\ showsLoadingOf(k)) =>
            rawPolicyModal'.content = detail.content]_vars
  /\ [][ViewRawRejectedStep]_vars

\* C24: the raw-policy modal always shows the row most recently opened.  A
\* getPolicyById request that settles while the modal is closed does not reopen
\* it, and a request for one row that settles while the modal shows another row
\* does not replace that row's content.
C24_ModalShowsLatestOpened ==
  [][\A k \in 1..Len(fetches) :
       (fetches[k].status = "pending" /\ fetches'[k].status # "pending") =>
         /\ rawPolicyModal = NoModal => rawPolicyModal' = NoModal
         /\ (rawPolicyModal # NoModal /\ rawPolicyModal.id # fetches[k].row.id) =>
              rawPolicyModal' = rawPolicyModal]_vars

\* C25: the value shown in the sort dropdown always corresponds to the active
\* sorting state (Date Desc: date descending, Date Asc: date ascending,
\* Status: status ascending), after any sequence of dropdown changes and
\* column-header sort toggles.
C25_DropdownMatchesSorting ==
  mounted =>
    /\ controls.sort = "Date Desc" <=> sorting = <<[id |-> "date", desc |-> TRUE]>>
    /\ controls.sort = "Date Asc" <=> sorting = <<[id |-> "date", desc |-> FALSE]>>
    /\ controls.sort = "Status" <=> sorting = <<[id |-> "status", desc |-> FALSE]>>

\* C26: the Selection Store is unchanged when a resolved load replaces the
\* document rows and when DocumentListPage unmounts and remounts; ids selected
\* while the sample rows were shown stay selected after backend rows replaced
\* them, although no displayed row carries those ids.
C26_LoadAndRemountKeepStore ==
  [][(documents' # documents \/ mounted' # mounted \/ inst' # inst \/ loads' # loads)
       => selectedIds' = selectedIds]_vars

\* in the second instance the backend rows are shown and sample ids, which no
\* loaded row carries, are still selected
C26_Witness ==
  /\ mounted /\ inst = 2
  /\ loads[2].commit = "merged"
  /\ isSelected(selectedIds, "D-1001")
  /\ \A n \in 1..Len(documents) : ~isSelected(selectedIds, documents[n].id)

\* C27: in DocumentViewerPage analysisResult and analysisError are never both
\* non-null; each committed settle of the analysis request leaves exactly one of
\* them non-null; and a mounted viewer that shows a result or an error never goes
\* back to both being null, so both are null only before the first committed
\* settle of the instance.
C27_ResultXorError ==
  /\ [](~(analysisResult # Null /\ analysisError # NullText))
  /\ [][\A r \in 1..Len(runs) :
          (runs[r].status = "pending" /\ runs'[r].status = "committed") =>
            (analysisResult' # Null) # (analysisError' # NullText)]_vars
  /\ [][(viewerMounted /\ viewerMounted'
           /\ (analysisResult # Null \/ analysisError # NullText))
          => (analysisResult' # Null \/ analysisError' # NullText)]_vars

\* a committed failure after a committed success: the error is shown and the
\* earlier result is gone
C27_Witness ==
  /\ viewerMounted
  /\ analysisResult = Null /\ analysisError # NullText
  /\ \E r \in 1..Len(runs) : \E q \in 1..Len(runs) :
       /\ r < q
       /\ runs[r].status = "committed" /\ runs[r].response # Null
       /\ runs[q].status = "committed" /\ runs[q].error = analysisError

(***************************************************************************)
(* AIChatPanel of DocumentViewerPage: draft, messages, isSending and the   *)
(* chatAssistant requests of sendMessage.  The panel modelled is the one   *)
(* of the desktop column, which is mounted as long as the viewer is.       *)
(***************************************************************************)
MaxChats == 2
MaxMessages == 3
MaxSends == 3

\* sendMessage() without an argument: the Send button and the Enter key
NoIncoming == Undefined

\* the suggested question whose button is clicked
SuggestedClicks == {"What is this regulation about?"}

\* what the user types into the input
Drafts == {"", "  ", " ok ", "Why is it so"}

\* AssistantChatResponse.reply values of the backend
Replies == {"", "It applies to payment banks."}

\* what apiClient.chatAssistant rejects with: an ApiError or another error
ChatFailures ==
  { [isApiError |-> TRUE, message |-> "Request failed (503)"],
    [isApiError |-> FALSE, message |-> "Failed to fetch"] }

ChatMessage(role, text) == [role |-> role, text |-> text]

ValidationMessage == ChatMessage("assistant", "Please enter at least 3 characters.")

\* the text the catch block of sendMessage builds
chatFallback(error) ==
  IF error.isApiError THEN "Assistant unavailable: " \o error.message
  ELSE "Assistant unavailable right now."

\* (incomingMessage ?? draft).trim()
messageOf(incoming) == trim(IF incoming = NoIncoming THEN draft ELSE incoming)

\* the input's onChange: setDraft(event.target.value)
SetDraft(text) ==
  /\ viewerMounted
  /\ text # draft
  /\ draft' = text
  /\ UNCHANGED <<panel, messages, isSending, chats, sends,
                 pageVars, backendVars, clientVars, storeVars, viewerVars, modalVars, askVars>>

\* faulty variant: the early return does not look at isSending
sendMessageWhileSending(incoming) ==
  LET message == messageOf(incoming)
  IN  /\ viewerMounted
      /\ sends < MaxSends
      /\ sends' = sends + 1
      /\ IF message = ""
         THEN UNCHANGED <<draft, messages, isSending, chats>>
         ELSE IF Len(message) < 3
         THEN /\ Len(messages) < MaxMessages
              /\ messages' = Append(messages, ValidationMessage)
              /\ UNCHANGED <<draft, isSending, chats>>
         ELSE /\ Len(chats) < MaxChats
              /\ draft' = ""
              /\ messages' = Append(messages, ChatMessage("user", message))
              /\ isSending' = TRUE
              /\ chats' = Append(chats, [panel |-> panel, message |-> message,
                                         status |-> "pending"])
      /\ UNCHANGED <<panel, pageVars, backendVars, clientVars, storeVars, viewerVars,
                     modalVars, askVars>>

\* one invocation of sendMessage up to its return or its await
sendMessage(incoming) ==
  LET message == messageOf(incoming)
  IN  /\ viewerMounted
      /\ sends < MaxSends
      /\ sends' = sends + 1
      /\ IF message = "" \/ isSending
         THEN UNCHANGED <<draft, messages, isSending, chats>>
         ELSE IF Len(message) < 3
         THEN /\ Len(messages) < MaxMessages
              /\ messages' = Append(messages, ValidationMessage)
              /\ UNCHANGED <<draft, isSending, chats>>
         ELSE /\ Len(chats) < MaxChats
              /\ draft' = ""
              /\ messages' = Append(messages, ChatMessage("user", message))
              /\ isSending' = TRUE
              /\ chats' = Append(chats, [panel |-> panel, message |-> message,
                                         status |-> "pending"])
      /\ UNCHANGED <<panel, pageVars, backendVars, clientVars, storeVars, viewerVars,
                     modalVars, askVars>>

\* the Enter key in the input, which is never disabled
PressEnter == sendMessage(NoIncoming)

\* the Send button, disabled while isSending
ClickSend == ~isSending /\ sendMessage(NoIncoming)

\* the button of a suggested question, disabled while isSending
ClickSuggested(question) == ~isSending /\ sendMessage(question)

\* the state updates of a settled request reach the panel that sent it only
\* while that panel is mounted
reachesPanel(k) == viewerMounted /\ chats[k].panel = panel

\* faulty variant: the reply replaces the list (no functional update on prev)
ChatFulfilledReplacing(k, reply) ==
  /\ k \in 1..Len(chats)
  /\ chats[k].status = "pending"
  /\ chats' = [chats EXCEPT ![k].status = "fulfilled"]
  /\ IF reachesPanel(k)
     THEN /\ messages' = <<ChatMessage("assistant", reply)>>
          /\ isSending' = FALSE
     ELSE UNCHANGED <<messages, isSending>>
  /\ UNCHANGED <<panel, draft, sends, pageVars, backendVars, clientVars, storeVars,
                 viewerVars, modalVars, askVars>>

\* apiClient.chatAssistant of request k resolves: the try block, then finally
ChatFulfilled(k, reply) ==
  /\ k \in 1..Len(chats)
  /\ chats[k].status = "pending"
  /\ chats' = [chats EXCEPT ![k].status = "fulfilled"]
  /\ IF reachesPanel(k)
     THEN /\ messages' = Append(messages, ChatMessage("assistant", reply))
          /\ isSending' = FALSE
     ELSE UNCHANGED <<messages, isSending>>
  /\ UNCHANGED <<panel, draft, sends, pageVars, backendVars, clientVars, storeVars,
                 viewerVars, modalVars, askVars>>

\* apiClient.chatAssistant of request k rejects: the catch block, then finally
ChatRejected(k, error) ==
  /\ k \in 1..Len(chats)
  /\ chats[k].status = "pending"
  /\ chats' = [chats EXCEPT ![k].status = "rejected"]
  /\ IF reachesPanel(k)
     THEN /\ messages' = Append(messages, ChatMessage("assistant", chatFallback(error)))
          /\ isSending' = FALSE
     ELSE UNCHANGED <<messages, isSending>>
  /\ UNCHANGED <<panel, draft, sends, pageVars, backendVars, clientVars, storeVars,
                 viewerVars, modalVars, askVars>>

(***************************************************************************)
(* SpecChat: visits of one analysis page and the events of its chat panel. *)
(***************************************************************************)
InitChat ==
  /\ backendPolicies = NonArray
  /\ backendGazettes = NonArray
  /\ InitApp

NextChat ==
  \/ OpenViewer("G-7")
  \/ CloseViewer
  \/ \E text \in Drafts : SetDraft(text)
  \/ PressEnter
  \/ ClickSend
  \/ \E question \in SuggestedClicks : ClickSuggested(question)
  \/ \E k \in 1..MaxChats, reply \in Replies : ChatFulfilled(k, reply)
  \/ \E k \in 1..MaxChats, error \in ChatFailures : ChatRejected(k, error)

SpecChat == InitChat /\ [][NextChat]_vars

\* the outstanding requests of panel instance p
pendingOf(p) == {k \in 1..Len(chats) : chats[k].panel = p /\ chats[k].status = "pending"}

\* C28: in one AIChatPanel at most one chatAssistant request is in flight at any
\* time; while the panel is mounted isSending is true exactly while a request of
\* it is outstanding; a sendMessage invocation while isSending is true changes
\* nothing; and isSending is false after the settle of the panel's request, on
\* success and on failure.
C28_OneRequestInFlight ==
  /\ [](\A p \in 1..panel : Cardinality(pendingOf(p)) <= 1)
  /\ [](viewerMounted => (isSending <=> pendingOf(panel) # {}))
  /\ [][(isSending /\ sends' # sends) => UNCHANGED <<draft, messages, isSending, chats>>]_vars
  /\ [][\A k \in 1..Len(chats) :
          (reachesPanel(k) /\ chats[k].status = "pending" /\ chats'[k].status # "pending")
            => ~isSending']_vars

\* a request is outstanding, a second message is typed and sendMessage has been
\* invoked more often than requests were issued
C28_Witness ==
  /\ viewerMounted /\ isSending
  /\ Cardinality(pendingOf(panel)) = 1
  /\ draft = "Why is it so"
  /\ Len(messages) = 1
  /\ sends = 2

isPrefix(a, b) == Len(a) <= Len(b) /\ SubSeq(b, 1, Len(a)) = a

\* the arguments sendMessage is invoked with
Incomings == {NoIncoming} \cup SuggestedClicks

\* the message list of a mounted panel only grows at its end
AppendOnlyStep == (viewerMounted /\ viewerMounted') => isPrefix(messages, messages')

\* an idle panel accepts a trimmed message of at least 3 characters: the user
\* message is appended and one request is issued
AcceptedSendStep ==
  \A incoming \in Incomings :
    (sendMessage(incoming) /\ ~isSending /\ Len(messageOf(incoming)) >= 3) =>
      /\ messages' = Append(messages, ChatMessage("user", messageOf(incoming)))
      /\ Len(chats') = Len(chats) + 1
      /\ chats'[Len(chats')].message = messageOf(incoming)

\* the settle of the panel's request appends exactly one assistant message,
\* directly after the user message of that request
SettledChatStep ==
  \A k \in 1..Len(chats) :
    (reachesPanel(k) /\ chats[k].status = "pending" /\ chats'[k].status # "pending") =>
      /\ messages # <<>>
      /\ messages[Len(messages)] = ChatMessage("user", chats[k].message)
      /\ \E text \in Replies \cup {chatFallback(error) : error \in ChatFailures} :
           messages' = Append(messages, ChatMessage("assistant", text))

\* an empty trimmed message changes nothing
EmptySendStep ==
  \A incoming \in Incomings :
    (sendMessage(incoming) /\ messageOf(incoming) = "") =>
      UNCHANGED <<draft, messages, isSending, chats>>

\* C29 (amended): the chat message list is append-only; a sendMessage call with
\* a trimmed message of at least 3 characters accepted while idle appends that
\* user message and, once the request settles, exactly one assistant message
\* (the reply or the unavailable text) directly after it; while idle a trimmed
\* message of 1 or 2 characters appends only the validation message and issues
\* no request; an empty message, and any message while a request is
\* outstanding, changes nothing.
C29_AppendOnlyConversation ==
  /\ [][AppendOnlyStep]_vars
  /\ [][AcceptedSendStep]_vars
  /\ [][SettledChatStep]_vars
  /\ [][\A incoming \in Incomings :
          (sendMessage(incoming) /\ Len(messageOf(incoming)) \in {1, 2}) =>
            IF isSending
            THEN UNCHANGED <<draft, messages, isSending, chats>>
            ELSE messages' = Append(messages, ValidationMessage) /\ chats' = chats]_vars
  /\ [][EmptySendStep]_vars

\* an accepted message with its reply, followed by the validation message of a
\* short one
C29_Witness ==
  /\ viewerMounted
  /\ messages = <<ChatMessage("user", "Why is it so"),
                  ChatMessage("assistant", "It applies to payment banks."),
                  ValidationMessage>>

\* C29 as stated: a trimmed message of 1 or 2 characters appends only the
\* validation message and issues no request, whenever sendMessage is called.
C29_ShortMessageAlwaysValidated ==
  /\ [][AppendOnlyStep]_vars
  /\ [][AcceptedSendStep]_vars
  /\ [][SettledChatStep]_vars
  /\ [][\A incoming \in Incomings :
          (sendMessage(incoming) /\ Len(messageOf(incoming)) \in {1, 2}) =>
            messages' = Append(messages, ValidationMessage) /\ chats' = chats]_vars
  /\ [][EmptySendStep]_vars

(***************************************************************************)
(* The regulation cards of DocumentListPage: loadPolicyAnalyses and        *)
(* askAboutRegulation.                                                     *)
(***************************************************************************)
MaxQueries == 2

PolicyAnalysis(gazette_id, subject) == [gazette_id |-> gazette_id, subject |-> subject]

\* what GET /api/policy-analyses answers with: two regulations and one record
\* without gazette_id
backendAnalyses ==
  Array(<< PolicyAnalysis("GZ-1", "Payment aggregator norms"),
           PolicyAnalysis("GZ-2", "Digital lending norms"),
           PolicyAnalysis(Undefined, "Untitled notice") >>)

\* PolicyQueryResponse values of the backend: answer and error are optional
PolicyQueryResponses ==
  { [answer |-> "Yes, it applies to banks.", error |-> Undefined],
    [answer |-> "", error |-> Undefined],
    [answer |-> Undefined, error |-> "Index unavailable"],
    [answer |-> Undefined, error |-> Undefined] }

NoVerifiedInformation == "No verified information found in available gazette records."

\* policyAnalyses.slice(0, 8): the cards rendered
cards == SubSeq(policyAnalyses, 1, IF Len(policyAnalyses) < 8 THEN Len(policyAnalyses) ELSE 8)

\* item?.gazette_id ?? ""
gazetteIdOf(item) == IF item.gazette_id = Undefined THEN "" ELSE item.gazette_id

\* useState `policyQuestions`: the question inputs of the cards are left empty
policyQuestions == NoEntries

\* (policyQuestions[gazetteId] ?? "").trim() || "Does this regulation affect banking?"
questionOf(gazetteId) ==
  LET typed == trim(IF gazetteId \in DOMAIN policyQuestions
                    THEN policyQuestions[gazetteId] ELSE "")
  IN  IF typed = "" THEN "Does this regulation affect banking?" ELSE typed

\* response?.answer ?? response?.error ?? "No verified information found ..."
answerOf(response) ==
  IF response.answer # Undefined THEN response.answer
  ELSE IF response.error # Undefined THEN response.error
  ELSE NoVerifiedInformation

\* (prev) => ({ ...prev, [key]: value })
withEntry(prev, key, value) ==
  [k \in DOMAIN prev \cup {key} |-> IF k = key THEN value ELSE prev[k]]

\* Boolean(record[key]) for a Record<string, boolean>
flagOf(record, key) == key \in DOMAIN record /\ record[key]

\* the second effect's request settles for the mounted instance
PolicyAnalysesSettle(outcome) ==
  /\ mounted
  /\ analysesLoad = inst
  /\ analysesLoad' = 0
  /\ policyAnalyses' = IF outcome = "fulfilled" /\ backendAnalyses.isArray
                       THEN backendAnalyses.items ELSE <<>>
  /\ UNCHANGED <<policyLoading, policyAnswers, queries, pageVars, backendVars, clientVars,
                 storeVars, viewerVars, modalVars, chatVars>>

\* the "Ask About This Regulation" button of a card, disabled while the card's
\* flag is set: askAboutRegulation up to its return or its await
askAboutRegulation(item) ==
  LET gazetteId == gazetteIdOf(item)
  IN  /\ mounted
      /\ ~flagOf(policyLoading, gazetteId)
      /\ IF gazetteId = ""
         THEN UNCHANGED <<policyLoading, queries>>
         ELSE /\ Len(queries) < MaxQueries
              /\ policyLoading' = withEntry(policyLoading, gazetteId, TRUE)
              /\ queries' = Append(queries, [inst |-> inst, gazette_id |-> gazetteId,
                                             question |-> questionOf(gazetteId),
                                             status |-> "pending"])
      /\ UNCHANGED <<policyAnalyses, analysesLoad, policyAnswers, pageVars, backendVars,
                     clientVars, storeVars, viewerVars, modalVars, chatVars>>

\* the state updates of a settled query reach the instance that sent it only
\* while that instance is mounted
reachesPage(k) == mounted /\ queries[k].inst = inst

\* apiClient.queryPolicy of query k resolves: the try block, then finally
QueryFulfilled(k, response) ==
  /\ k \in 1..Len(queries)
  /\ queries[k].status = "pending"
  /\ queries' = [queries EXCEPT ![k].status = "fulfilled"]
  /\ IF reachesPage(k)
     THEN /\ policyAnswers' = withEntry(policyAnswers, queries[k].gazette_id, answerOf(response))
          /\ policyLoading' = withEntry(policyLoading, queries[k].gazette_id, FALSE)
     ELSE UNCHANGED <<policyAnswers, policyLoading>>
  /\ UNCHANGED <<policyAnalyses, analysesLoad, pageVars, backendVars, clientVars,
                 storeVars, viewerVars, modalVars, chatVars>>

\* apiClient.queryPolicy of query k rejects: the catch block, then finally
QueryRejected(k) ==
  /\ k \in 1..Len(queries)
  /\ queries[k].status = "pending"
  /\ queries' = [queries EXCEPT ![k].status = "rejected"]
  /\ IF reachesPage(k)
     THEN /\ policyAnswers' = withEntry(policyAnswers, queries[k].gazette_id, NoVerifiedInformation)
          /\ policyLoading' = withEntry(policyLoading, queries[k].gazette_id, FALSE)
     ELSE UNCHANGED <<policyAnswers, policyLoading>>
  /\ UNCHANGED <<policyAnalyses, analysesLoad, pageVars, backendVars, clientVars,
                 storeVars, viewerVars, modalVars, chatVars>>

(***************************************************************************)
(* SpecAsk: visits of the registry and the queries of its regulation cards.*)
(***************************************************************************)
InitAsk ==
  /\ backendPolicies = NonArray
  /\ backendGazettes = NonArray
  /\ InitApp

NextAsk ==
  \/ MountDocumentList
  \/ UnmountDocumentList
  \/ \E outcome \in Outcomes : PolicyAnalysesSettle(outcome)
  \/ \E n \in 1..Len(cards) : askAboutRegulation(cards[n])
  \/ \E k \in 1..MaxQueries, response \in PolicyQueryResponses : QueryFulfilled(k, response)
  \/ \E k \in 1..MaxQueries : QueryRejected(k)

SpecAsk == InitAsk /\ [][NextAsk]_vars

\* the entries of a record other than key are the same before and after
othersUnchanged(before, after, key) ==
  /\ DOMAIN before \ {key} = DOMAIN after \ {key}
  /\ \A k \in DOMAIN before \ {key} : after[k] = before[k]

\* the start of a query sets the card's flag and nothing else; an item without
\* gazette_id issues no request
AskStartStep ==
  \A n \in 1..Len(cards) :
    askAboutRegulation(cards[n]) =>
      IF cards[n].gazette_id = Undefined \/ cards[n].gazette_id = ""
      THEN queries' = queries /\ policyLoading' = policyLoading /\ policyAnswers' = policyAnswers
      ELSE /\ Len(queries') = Len(queries) + 1
           /\ flagOf(policyLoading', cards[n].gazette_id)
           /\ othersUnchanged(policyLoading, policyLoading', cards[n].gazette_id)
           /\ policyAnswers' = policyAnswers

\* the settle of a query of the mounted instance clears the card's flag, records
\* an answer for the card and leaves the other cards alone
AskSettleStep ==
  \A k \in 1..Len(queries) :
    (reachesPage(k) /\ queries[k].status = "pending" /\ queries'[k].status # "pending") =>
      LET gazetteId == queries[k].gazette_id
      IN  /\ gazetteId \in DOMAIN policyLoading' /\ ~policyLoading'[gazetteId]
          /\ gazetteId \in DOMAIN policyAnswers'
          /\ othersUnchanged(policyLoading, policyLoading', gazetteId)
          /\ othersUnchanged(policyAnswers, policyAnswers', gazetteId)

\* C30: for each regulation card askAboutRegulation sets policyLoading[gazetteId]
\* to true when the query starts and back to false when it settles, records a
\* non-empty answer for that gazetteId on success and on failure, leaves the
\* loading flags and answers of all other gazetteIds unchanged, also when
\* queries for several cards are in flight and settle in any order, and issues
\* no request for an item with no gazette_id.
C30_AskPerCard ==
  /\ [][AskStartStep]_vars
  /\ [][AskSettleStep]_vars
  /\ [][\A k \in 1..Len(queries) :
          (reachesPage(k) /\ queries[k].status = "pending" /\ queries'[k].status # "pending")
            => policyAnswers'[queries[k].gazette_id] # ""]_vars

\* the same statement without the promise that the recorded answer is non-empty
C30_AskPerCardAnyAnswer ==
  /\ [][AskStartStep]_vars
  /\ [][AskSettleStep]_vars

====
